---- MODULE Spec2Model ----
(***************************************************************************)
(* npm-history: incremental fetching of daily download counts.             *)
(*                                                                         *)
(* Time.  A Date that holds a calendar day (Statistic.day, NPM_EPOCH) is   *)
(* the number of days since 1970-01-01 (its UTC midnight).  A moment is an *)
(* instant counted in hours since 1970-01-01T00:00Z, so the moment of a    *)
(* day d is d * 24 and a moment m lies on day m \div 24 at hour m % 24.    *)
(* The minutes of the clock never influence a decision of the code: they   *)
(* only matter to hour(), to diff(.., 'days') against a midnight and to    *)
(* min() against a midnight, and all three are decided by the hour.        *)
(***************************************************************************)
EXTENDS Integers, Sequences, FiniteSets, TLC

VARIABLES
    clock,          \* moment.utc(): the current instant
    call,           \* the function under call and its arguments
    result,         \* what the call returned (and the locals it computed)
    package,        \* table package: the rows, in insertion order
    package_id_seq, \* the sequence behind package.id SERIAL: the next value
    statistic,      \* table statistic: the rows, in insertion order
    requests,       \* the calls of getPackageStatistics in flight, by slot
    used            \* how much of each bound the run has used

store == <<package, package_id_seq, statistic, requests, used>>
vars == <<clock, call, result, package, package_id_seq, statistic, requests, used>>

----------------------------------------------------------------------------
(* The state after construction: both tables empty, no call in flight.     *)

\* the inbound requests that can be in flight together
Slots == {1, 2}

NoPackage == [id |-> 0, name |-> ""]

\* no response received, no endpoints decided
NoResponse == [error |-> "(none)", body |-> [error |-> "", downloads |-> <<>>]]
Undecided == [status |-> "pending", now |-> 0, endpoints |-> <<>>]

\* a slot without a call.  callback holds the invocations of the callback,
\* trace the operations that came back, each with its error
Idle ==
    [pc |-> "idle", method |-> "GET", name |-> "", min_range_days |-> 0,
     max_range_days |-> 0,
     package_row |-> NoPackage, local_statistics |-> <<>>, decision |-> Undecided,
     response |-> NoResponse, statistics |-> <<>>, callback |-> <<>>, trace |-> <<>>]

EmptyStore ==
    /\ package = <<>>
    /\ package_id_seq = 1
    /\ statistic = <<>>
    /\ requests = [s \in Slots |-> Idle]
    /\ used = [calls |-> 0, failures |-> 0]

----------------------------------------------------------------------------
(* Calendar conversions (proleptic Gregorian, UTC).                        *)

\* new Date('YYYY-MM-DD') / moment.utc('YYYY-MM-DD'): the day number of a date
ParseDay(y, m, d) ==
    LET yy  == IF m <= 2 THEN y - 1 ELSE y
        era == yy \div 400
        yoe == yy - era * 400
        mp  == IF m > 2 THEN m - 3 ELSE m + 9
        doy == (153 * mp + 2) \div 5 + d - 1
        doe == yoe * 365 + yoe \div 4 - yoe \div 100 + doy
    IN  era * 146097 + doe - 719468

\* moment.format('YYYY-MM-DD') of a day number: the text, as <<year, month, day>>
FormatDay(z) ==
    LET zz  == z + 719468
        era == zz \div 146097
        doe == zz - era * 146097
        yoe == (doe - doe \div 1460 + doe \div 36524 - doe \div 146096) \div 365
        doy == doe - (365 * yoe + yoe \div 4 - yoe \div 100)
        mp  == (5 * doy + 2) \div 153
        d   == doy - (153 * mp + 2) \div 5 + 1
        m   == IF mp < 10 THEN mp + 3 ELSE mp - 9
        y   == yoe + era * 400
    IN  <<IF m <= 2 THEN y + 1 ELSE y, m, d>>

\* moment.utc(date): the instant of the midnight that starts day d
MomentOfDay(d) == d * 24

\* the calendar day an instant lies on
DayOf(m) == m \div 24

\* moment.hour()
HourOf(m) == m % 24

\* moment.add(n, 'days') / moment.subtract(n, 'days') in UTC
AddDays(m, n) == m + n * 24

\* a.diff(b, 'days'): the difference in days, truncated toward zero
DiffDays(a, b) ==
    IF a >= b THEN (a - b) \div 24 ELSE -((b - a) \div 24)

\* moment.min(a, b): the earlier instant
MomentMin(a, b) == IF b < a THEN b ELSE a

NPM_EPOCH == ParseDay(2009, 9, 29)

----------------------------------------------------------------------------
(* The Range Reconciler: countMissingStatistics, determineNeededEndpoints. *)
(* A Statistic is [day |-> day number, downloads |-> Int].                 *)

\* the loop stops at the first index whose downloads are > 0: records of 0
\* are counted as well
countMissingStatistics_ZeroCounts(statistics) ==
    LET valid == {i \in 1..Len(statistics) : statistics[i].downloads > 0}
    IN  IF valid = {}
        THEN Len(statistics)
        ELSE (CHOOSE i \in valid : \A j \in valid : i <= j) - 1

\* the for loop of countMissingStatistics: `missing` stops at the first index
\* (from 0) whose downloads are > -1, or at the length
countMissingStatistics(statistics) ==
    LET valid == {i \in 1..Len(statistics) : statistics[i].downloads > -1}
    IN  IF valid = {}
        THEN Len(statistics)
        ELSE (CHOOSE i \in valid : \A j \in valid : i <= j) - 1

\* more than half a year of invalid counts at the front: stop going back
BacklogLimit == 180

\* a fallback of the Unix epoch instead of NPM_EPOCH
LatestStatistic_NoEpoch(statistics) ==
    IF Len(statistics) > 0
    THEN statistics[Len(statistics)]
    ELSE [day |-> 0, downloads |-> -1]

\* a fallback of the day before NPM_EPOCH
LatestStatistic_BeforeEpoch(statistics) ==
    IF Len(statistics) > 0
    THEN statistics[Len(statistics)]
    ELSE [day |-> NPM_EPOCH - 1, downloads |-> -1]

\* statistics[statistics.length - 1] || {day: NPM_EPOCH, downloads: -1}
LatestStatistic(statistics) ==
    IF Len(statistics) > 0
    THEN statistics[Len(statistics)]
    ELSE [day |-> NPM_EPOCH, downloads |-> -1]

\* without the second day of margin before 6am
Now_NoMargin(utc) == AddDays(utc, -1)

\* `now`: yesterday at this time of day, the day before when that is before 6am
Now(utc) ==
    LET yesterday == AddDays(utc, -1)
    IN  IF HourOf(yesterday) < 6 THEN AddDays(yesterday, -1) ELSE yesterday

\* the range starts on the latest stored day itself
ForwardEndpoints_FromLatest(latest, now, max_range_days) ==
    <<latest, MomentMin(AddDays(latest, max_range_days - 1), now)>>

\* the end is not capped by `now`
ForwardEndpoints_NoMin(latest, now, max_range_days) ==
    <<AddDays(latest, 1), AddDays(latest, max_range_days)>>

\* one day too many
ForwardEndpoints_SpanOff(latest, now, max_range_days) ==
    <<AddDays(latest, 1), MomentMin(AddDays(latest, max_range_days + 1), now)>>

\* the range starts two days after the latest stored day
ForwardEndpoints_SkipDay(latest, now, max_range_days) ==
    LET start == AddDays(latest, 2)
        end   == MomentMin(AddDays(start, max_range_days - 1), now)
    IN  <<start, end>>

\* case 1: from the day after the latest statistic, at most max_range_days
\* days, not reaching into the future
ForwardEndpoints(latest, now, max_range_days) ==
    LET start == AddDays(latest, 1)
        end   == MomentMin(AddDays(start, max_range_days - 1), now)
    IN  <<start, end>>

\* one day too many
BackfillEndpoints_SpanOff(statistics, max_range_days) ==
    LET end == AddDays(MomentOfDay(statistics[1].day), -1)
    IN  <<AddDays(end, -max_range_days), end>>

\* the range ends on the earliest stored day itself
BackfillEndpoints_FromEarliest(statistics, max_range_days) ==
    LET end == MomentOfDay(statistics[1].day)
    IN  <<AddDays(end, -(max_range_days - 1)), end>>

\* case 2: the max_range_days days that precede the earliest statistic
BackfillEndpoints(statistics, max_range_days) ==
    LET earliest == MomentOfDay(statistics[1].day)
        end      == AddDays(earliest, -1)
        start    == AddDays(end, -(max_range_days - 1))
    IN  <<start, end>>

\* exhausted already at BacklogLimit leading records
FillBacklog_AtLimit(statistics, max_range_days) ==
    IF countMissingStatistics(statistics) >= BacklogLimit
    THEN [status |-> "returned", endpoints |-> <<>>]
    ELSE IF Len(statistics) = 0
         THEN [status |-> "TypeError", endpoints |-> <<>>]
         ELSE [status |-> "returned",
               endpoints |-> BackfillEndpoints(statistics, max_range_days)]

\* the branch taken when fewer than min_range_days days are missing at the end
FillBacklog(statistics, max_range_days) ==
    IF countMissingStatistics(statistics) > BacklogLimit
    THEN [status |-> "returned", endpoints |-> <<>>]          \* [null, null]
    ELSE IF Len(statistics) = 0
         THEN [status |-> "TypeError", endpoints |-> <<>>]    \* statistics[0].day
         ELSE [status |-> "returned",
               endpoints |-> BackfillEndpoints(statistics, max_range_days)]

\* the exhausted backlog decided before the forward gap
determineNeededEndpoints_BacklogFirst(statistics, min_range_days, max_range_days, utc) ==
    LET latest == MomentOfDay(LatestStatistic(statistics).day)
        now    == Now(utc)
        out    == IF countMissingStatistics(statistics) > BacklogLimit
                  THEN [status |-> "returned", endpoints |-> <<>>]
                  ELSE IF DiffDays(now, latest) >= min_range_days
                       THEN [status |-> "returned",
                             endpoints |-> ForwardEndpoints(latest, now, max_range_days)]
                       ELSE FillBacklog(statistics, max_range_days)
    IN  [status |-> out.status, now |-> now, endpoints |-> out.endpoints]

\* the forward gap has to be longer than min_range_days
determineNeededEndpoints_StrictGap(statistics, min_range_days, max_range_days, utc) ==
    LET latest == MomentOfDay(LatestStatistic(statistics).day)
        now    == Now(utc)
        out    == IF DiffDays(now, latest) > min_range_days
                  THEN [status |-> "returned",
                        endpoints |-> ForwardEndpoints(latest, now, max_range_days)]
                  ELSE FillBacklog(statistics, max_range_days)
    IN  [status |-> out.status, now |-> now, endpoints |-> out.endpoints]

\* the forward range is decided one day of gap too early
determineNeededEndpoints_ZeroGap(statistics, min_range_days, max_range_days, utc) ==
    LET latest == MomentOfDay(LatestStatistic(statistics).day)
        now    == Now(utc)
        out    == IF DiffDays(now, latest) >= min_range_days - 1
                  THEN [status |-> "returned",
                        endpoints |-> ForwardEndpoints(latest, now, max_range_days)]
                  ELSE FillBacklog(statistics, max_range_days)
    IN  [status |-> out.status, now |-> now, endpoints |-> out.endpoints]

\* the endpoints (moments, inclusive) of the next batch to request, <<>> for
\* [null, null]; `now` is the local of that name
determineNeededEndpoints(statistics, min_range_days, max_range_days, utc) ==
    LET latest == MomentOfDay(LatestStatistic(statistics).day)
        now    == Now(utc)
        out    == IF DiffDays(now, latest) >= min_range_days
                  THEN [status |-> "returned",
                        endpoints |-> ForwardEndpoints(latest, now, max_range_days)]
                  ELSE FillBacklog(statistics, max_range_days)
    IN  [status |-> out.status, now |-> now, endpoints |-> out.endpoints]

----------------------------------------------------------------------------
(* Calls of determineNeededEndpoints on bounded inputs.                    *)

MaxSpan == 3        \* max_range_days ranges over 1..MaxSpan and the callers' values
MaxTail == 2        \* records that follow the run of leading -1 records

\* [min_range_days, max_range_days] of the controller, and small ones
CallerPolicies == {<<5, 10>>, <<30, 180>>}
Policies ==
    CallerPolicies \cup {<<g, s>> : g \in 1..MaxSpan, s \in 1..MaxSpan}

\* the clock: 2024-03-10 at hours on both sides of 6am
ClockHours == {0, 5, 6, 12}
Clocks == {MomentOfDay(ParseDay(2024, 3, 10)) + h : h \in ClockHours}

DownloadValues == {-1, 0, 3}
Tails == UNION {[1..n -> DownloadValues] : n \in 0..MaxTail}
MissingCounts == {0, 1, BacklogLimit - 1, BacklogLimit, BacklogLimit + 1}
Strides == {1, 2}

\* how many days before today the latest record lies: a stored day is never
\* later than the `now` of the call that stored it, so at least 2
Backs(p) == {2, p[1] + 1, p[1] + 2, p[2] + 1, p[2] + 2}

\* `missing` records of -1 followed by `tail`, on days `stride` apart that end
\* on day `latest`
History(latest, stride, missing, tail) ==
    LET n == missing + Len(tail)
    IN  [i \in 1..n |->
            [day |-> latest - (n - i) * stride,
             downloads |-> IF i <= missing THEN -1 ELSE tail[i - missing]]]

Pending == [status |-> "pending", now |-> 0, endpoints |-> <<>>]

\* the first clocks at which `now` is min_range_days days after the epoch: a
\* noon, and a 5am one day later
FirstClocks(p) ==
    {MomentOfDay(NPM_EPOCH + p[1] + 1) + 12, MomentOfDay(NPM_EPOCH + p[1] + 2) + 5}

\* a history decided in 2024, or nothing stored at the first clocks of a policy
InitReconciler ==
    /\ \/ /\ clock \in Clocks
          /\ \E p \in Policies, stride \in Strides, missing \in MissingCounts,
                tail \in Tails :
                \E back \in Backs(p) :
                    /\ p[1] <= p[2]
                    /\ call = [fn |-> "determineNeededEndpoints",
                               statistics |->
                                    History(DayOf(clock) - back, stride, missing, tail),
                               min_range_days |-> p[1],
                               max_range_days |-> p[2]]
       \/ \E p \in Policies :
            /\ p[1] <= p[2]
            /\ clock \in FirstClocks(p)
            /\ call = [fn |-> "determineNeededEndpoints",
                       statistics |-> <<>>,
                       min_range_days |-> p[1],
                       max_range_days |-> p[2]]
    /\ result = Pending
    /\ EmptyStore

CallDetermineNeededEndpoints ==
    /\ call.fn = "determineNeededEndpoints"
    /\ result.status = "pending"
    /\ result' = determineNeededEndpoints(call.statistics, call.min_range_days,
                                          call.max_range_days, clock)
    /\ UNCHANGED <<clock, call>>
    /\ UNCHANGED store

NextReconciler == CallDetermineNeededEndpoints

SpecReconciler == InitReconciler /\ [][NextReconciler]_vars

----------------------------------------------------------------------------
(* The Statistics Normalizer: getRangeStatistics.                          *)
(* A response is what request.get hands to its callback:                   *)
(*   [error |-> transport error or "", body |-> [error |-> text or "",     *)
(*    downloads |-> sequence of [day |-> <<y, m, d>>, downloads |-> Int]]] *)

NO_STATS == "no stats for this package for this range (0008)"

\* the object built by body.downloads.forEach(download =>
\* downloads[download.day] = download.downloads): a later entry overwrites
DownloadsByDay(body_downloads) ==
    LET days == {body_downloads[i].day : i \in 1..Len(body_downloads)}
        last(day) == CHOOSE i \in 1..Len(body_downloads) :
                        /\ body_downloads[i].day = day
                        /\ \A j \in 1..Len(body_downloads) :
                                body_downloads[j].day = day => j <= i
    IN  [day \in days |-> body_downloads[last(day)].downloads]

\* a day without an entry is marked unavailable
DownloadsOrDefault_Unavailable(downloads, day, downloads_default) ==
    IF day \in DOMAIN downloads THEN downloads[day] ELSE -1

\* downloads[day] || downloads_default: undefined and 0 give the default
DownloadsOrDefault(downloads, day, downloads_default) ==
    IF day \in DOMAIN downloads /\ downloads[day] # 0
    THEN downloads[day]
    ELSE downloads_default

\* the cursor stops one day short of `end`
FillDays_ExclusiveEnd(start, end, downloads, downloads_default) ==
    LET n == IF start < end THEN (end - start + 23) \div 24 ELSE 0
    IN  [i \in 1..n |->
            [day |-> DayOf(AddDays(start, i - 1)),
             downloads |-> DownloadsOrDefault(downloads,
                                FormatDay(DayOf(AddDays(start, i - 1))),
                                downloads_default)]]

\* while (!start.isAfter(end)) { push; start.add(1, 'day') }: one record for
\* each position start, start + 1 day, ... of the cursor that is not after end
FillDays(start, end, downloads, downloads_default) ==
    LET n == IF start <= end THEN (end - start) \div 24 + 1 ELSE 0
    IN  [i \in 1..n |->
            [day |-> DayOf(AddDays(start, i - 1)),
             downloads |-> DownloadsOrDefault(downloads,
                                FormatDay(DayOf(AddDays(start, i - 1))),
                                downloads_default)]]

\* the no-data error filled with the default of a successful response
getRangeStatistics_NoStatsAsZero(start, end, response) ==
    IF response.error # ""
    THEN [status |-> "returned", error |-> response.error, statistics |-> <<>>]
    ELSE IF response.body.error # "" /\ response.body.error # NO_STATS
    THEN [status |-> "returned", error |-> response.body.error, statistics |-> <<>>]
    ELSE [status |-> "returned", error |-> "",
          statistics |-> FillDays(start, end, DownloadsByDay(<<>>), 0)]

\* the no-data error fails the call like any other error of the body
getRangeStatistics_NoStatsFails(start, end, response) ==
    IF response.error # ""
    THEN [status |-> "returned", error |-> response.error, statistics |-> <<>>]
    ELSE IF response.body.error # ""
    THEN [status |-> "returned", error |-> response.body.error, statistics |-> <<>>]
    ELSE [status |-> "returned", error |-> "",
          statistics |-> FillDays(start, end,
                                  DownloadsByDay(response.body.downloads), 0)]

\* what getRangeStatistics passes to its callback for a response
getRangeStatistics(start, end, response) ==
    IF response.error # ""
    THEN [status |-> "returned", error |-> response.error, statistics |-> <<>>]
    ELSE IF response.body.error # ""
    THEN IF response.body.error = NO_STATS
         THEN [status |-> "returned", error |-> "",
               statistics |-> FillDays(start, end, DownloadsByDay(<<>>), -1)]
         ELSE [status |-> "returned", error |-> response.body.error,
               statistics |-> <<>>]
    ELSE [status |-> "returned", error |-> "",
          statistics |-> FillDays(start, end,
                                  DownloadsByDay(response.body.downloads), 0)]

----------------------------------------------------------------------------
(* Calls of getRangeStatistics on bounded inputs.                          *)

MaxRangeDays == 5   \* days in the requested range
MaxEntries == 2     \* entries of body.downloads

\* the range starts 2024-01-01; `end` is a midnight or, like `now`, later in its day
RangeStart == MomentOfDay(ParseDay(2024, 1, 1))
EndHours == {0, 12}
UpstreamCounts == {0, 7, 9}

\* entries for the days of the range, the day before and the day after
Entries(days) ==
    {[day |-> FormatDay(DayOf(RangeStart) + k), downloads |-> c] :
        k \in -1..days, c \in UpstreamCounts}

Responses(days) ==
    {[error |-> "ECONNRESET", body |-> [error |-> "", downloads |-> <<>>]],
     [error |-> "", body |-> [error |-> NO_STATS, downloads |-> <<>>]],
     [error |-> "", body |-> [error |-> NO_STATS,
                              downloads |-> <<[day |-> FormatDay(DayOf(RangeStart)),
                                               downloads |-> 7]>>]],
     [error |-> "", body |-> [error |-> "package not found", downloads |-> <<>>]]}
    \cup {[error |-> "", body |-> [error |-> "", downloads |-> ds]] :
            ds \in UNION {[1..n -> Entries(days)] : n \in 0..MaxEntries}}

InitNormalizer ==
    /\ clock = MomentOfDay(ParseDay(2024, 3, 10)) + 12
    /\ \E days \in 1..MaxRangeDays, h \in EndHours :
        \E response \in Responses(days) :
            call = [fn |-> "getRangeStatistics",
                    start |-> RangeStart,
                    end |-> AddDays(RangeStart, days - 1) + h,
                    response |-> response]
    /\ result = [status |-> "pending", error |-> "", statistics |-> <<>>]
    /\ EmptyStore

CallGetRangeStatistics ==
    /\ call.fn = "getRangeStatistics"
    /\ result.status = "pending"
    /\ result' = getRangeStatistics(call.start, call.end, call.response)
    /\ UNCHANGED <<clock, call>>
    /\ UNCHANGED store

\* the error is dropped from the body together with the entries
BodyAfter_ErrorCleared(response) ==
    IF response.error = "" /\ response.body.error = NO_STATS
    THEN [response EXCEPT !.body.downloads = <<>>, !.body.error = ""]
    ELSE response

\* the response object as the call leaves it: body.downloads = [] under the
\* no-data error
BodyAfter(response) ==
    IF response.error = "" /\ response.body.error = NO_STATS
    THEN [response EXCEPT !.body.downloads = <<>>]
    ELSE response

\* the same response object is normalized once more for moments of the same
\* start and end
CallGetRangeStatisticsAgain ==
    /\ call.fn = "getRangeStatistics"
    /\ result.status = "returned"
    /\ result' = [getRangeStatistics(call.start, call.end, BodyAfter(call.response))
                    EXCEPT !.status = "repeated"]
    /\ call' = [call EXCEPT !.response = BodyAfter(@)]
    /\ UNCHANGED clock
    /\ UNCHANGED store

NextNormalizer == CallGetRangeStatistics \/ CallGetRangeStatisticsAgain

SpecNormalizer == InitNormalizer /\ [][NextNormalizer]_vars

----------------------------------------------------------------------------
(* The persistence layer: tables package and statistic.                    *)
(* A package row is [id, name]; a statistic row is [package_id, day,       *)
(* downloads] with day the DATE <<y, m, d>>.                               *)

UNIQUE_VIOLATION == "duplicate key value violates unique constraint"
SYNTAX_ERROR == "syntax error at end of input"
DB_ERROR == "connection terminated"

\* db.Select('package').whereEqual({name})
SelectPackage(name) == SelectSeq(package, LAMBDA r : r.name = name)

\* without the UNIQUE constraint on name
InsertPackage_NoUnique(name) ==
    LET row == [id |-> package_id_seq, name |-> name]
    IN  [error |-> "", rows |-> <<row>>, table |-> Append(package, row)]

\* ON CONFLICT (name) DO UPDATE: the stored row of the name is replaced by a
\* row with a new id
InsertPackage_Upsert(name) ==
    LET row == [id |-> package_id_seq, name |-> name]
    IN  [error |-> "", rows |-> <<row>>,
         table |-> IF SelectPackage(name) # <<>>
                   THEN [i \in 1..Len(package) |->
                            IF package[i].name = name THEN row ELSE package[i]]
                   ELSE Append(package, row)]

\* db.Insert('package').set({name}).returning('*') under name TEXT NOT NULL
\* UNIQUE: the sequence value is consumed also when the row is rejected
InsertPackage(name) ==
    IF SelectPackage(name) # <<>>
    THEN [error |-> UNIQUE_VIOLATION, rows |-> <<>>, table |-> package]
    ELSE LET row == [id |-> package_id_seq, name |-> name]
         IN  [error |-> "", rows |-> <<row>>, table |-> Append(package, row)]

\* the day number of a stored DATE
DateDay(date) == ParseDay(date[1], date[2], date[3])

\* db.Select('statistic').add('day', 'downloads').whereEqual({package_id})
\* .orderBy('day'): the rows as Statistic objects, ascending by day
SelectStatistic(package_id) ==
    LET rows == SelectSeq(statistic, LAMBDA r : r.package_id = package_id)
        found == [i \in 1..Len(rows) |->
                    [day |-> DateDay(rows[i].day), downloads |-> rows[i].downloads]]
    IN  SortSeq(found, LAMBDA a, b : a.day < b.day)

\* every tuple gets the id of the first package
buildMultirowInsert_FirstPackage(package_id, statistics) ==
    [i \in 1..Len(statistics) |->
        [package_id |-> 1,
         day |-> FormatDay(statistics[i].day),
         downloads |-> statistics[i].downloads]]

\* the tuples of the INSERT INTO statistic (package_id, day, downloads) VALUES ...
buildMultirowInsert(package_id, statistics) ==
    [i \in 1..Len(statistics) |->
        [package_id |-> package_id,
         day |-> FormatDay(statistics[i].day),
         downloads |-> statistics[i].downloads]]

\* the (package_id, day) keys of rows
Keys(rows) == {<<rows[i].package_id, rows[i].day>> : i \in 1..Len(rows)}

\* the stored rows with a key of the insert are replaced by the new rows
ExecuteInsert_Overwrite(table, rows) ==
    IF Len(rows) = 0
    THEN [error |-> SYNTAX_ERROR, table |-> table]
    ELSE [error |-> "",
          table |-> SelectSeq(table, LAMBDA r : <<r.package_id, r.day>> \notin Keys(rows))
                        \o rows]

\* the rows of the insert with a new key are stored, the others are skipped
ExecuteInsert_SkipStored(table, rows) ==
    IF Len(rows) = 0
    THEN [error |-> SYNTAX_ERROR, table |-> table]
    ELSE [error |-> IF Keys(rows) \cap Keys(table) # {} THEN UNIQUE_VIOLATION ELSE "",
          table |-> table \o
                SelectSeq(rows, LAMBDA r : <<r.package_id, r.day>> \notin Keys(table))]

\* without the UNIQUE constraint on (package_id, day)
ExecuteInsert_NoUnique(table, rows) ==
    IF Len(rows) = 0
    THEN [error |-> SYNTAX_ERROR, table |-> table]
    ELSE [error |-> "", table |-> table \o rows]

\* db.executeSQL of the multi-row insert under UNIQUE (package_id, day): one
\* statement, so all rows are stored or none is
ExecuteInsert(table, rows) ==
    IF Len(rows) = 0
    THEN [error |-> SYNTAX_ERROR, table |-> table]
    ELSE IF Keys(rows) \cap Keys(table) # {} \/ Cardinality(Keys(rows)) # Len(rows)
    THEN [error |-> UNIQUE_VIOLATION, table |-> table]
    ELSE [error |-> "", table |-> table \o rows]

----------------------------------------------------------------------------
(* The upstream source as request.get sees it.                             *)

\* the first day the upstream has counts for: all packages together from the
\* day after the epoch, a single package from the day it was published
UpstreamFirstDay(name) ==
    IF name = "" THEN NPM_EPOCH + 1 ELSE ParseDay(2014, 3, 14)

\* the downloads the upstream knows for a day; it omits days without any
UpstreamCount(name, day) == IF day % 3 = 0 THEN 0 ELSE 5 + (day % 4)

\* the body for /downloads/range/{start}:{end}/{name}: the 0008 error when the
\* range lies before the first day with counts
UpstreamBody(name, start, end) ==
    LET first == DayOf(start)
        last  == DayOf(end)
        days  == SelectSeq([i \in 1..(last - first + 1) |-> first + i - 1],
                           LAMBDA d : d >= UpstreamFirstDay(name) /\ UpstreamCount(name, d) > 0)
    IN  IF last < UpstreamFirstDay(name)
        THEN [error |-> NO_STATS, downloads |-> <<>>]
        ELSE [error |-> "",
              downloads |-> [i \in 1..Len(days) |->
                                [day |-> FormatDay(days[i]),
                                 downloads |-> UpstreamCount(name, days[i])]]]

\* what the request can come back with when it fails
UpstreamFailures ==
    {[error |-> "ECONNRESET", body |-> [error |-> "", downloads |-> <<>>]],
     [error |-> "", body |-> [error |-> "package not found", downloads |-> <<>>]]}

----------------------------------------------------------------------------
(* The Fetch Orchestrator: findOrCreatePackage, getPackageStatistics.      *)
(* A call advances one database operation or upstream response at a time;  *)
(* pc names the operation it waits for.                                    *)

MaxCalls == 3       \* calls of getPackageStatistics in a run
MaxFailures == 1    \* database and upstream failures in a run

Names == {"", "left-pad"}

\* every name gets the policy of a single package
Policy_Wide(name) == <<30, 180>>

\* [min_range_days, max_range_days] the controller passes for a name
Policy(name) == IF name = "" THEN <<5, 10>> ELSE <<30, 180>>

\* the clock at the start: 5am, 16 or 36 days after the epoch
SystemClocks == {MomentOfDay(NPM_EPOCH + 16) + 5, MomentOfDay(NPM_EPOCH + 36) + 5}

CanFail == used.failures < MaxFailures
Failed == [used EXCEPT !.failures = @ + 1]

\* callback(error, statistics) after operation `step` came back: the call is over
Finish(r, step, error, statistics) ==
    [r EXCEPT !.pc = "done",
              !.callback = Append(@, [error |-> error, statistics |-> statistics]),
              !.trace = Append(@, [op |-> step, error |-> error])]

\* operation `step` came back with `error`; the call waits for the next one
Advance(r, step, error, pc) ==
    [r EXCEPT !.pc = pc, !.trace = Append(@, [op |-> step, error |-> error])]

\* the merged statistics are left in the order of concat
MergeStatistics_Unsorted(statistics, local_statistics) ==
    statistics \o local_statistics

\* statistics.concat(local_statistics).sort((a, b) => a.day.getTime() - b.day.getTime())
MergeStatistics(statistics, local_statistics) ==
    SortSeq(statistics \o local_statistics, LAMBDA a, b : a.day < b.day)

\* the call the route makes for a name, waiting for the select of the package
NewCall(name) ==
    [Idle EXCEPT !.pc = "select_package", !.name = name,
                 !.min_range_days = Policy(name)[1],
                 !.max_range_days = Policy(name)[2]]

\* an inbound request: the controller calls getPackageStatistics, which issues
\* the select of findOrCreatePackage.  A name is requested only when `now` is
\* at least min_range_days days after the epoch.
StartCall(s, name) ==
    /\ requests[s].pc \in {"idle", "done"}
    /\ \A t \in Slots : t < s => requests[t].pc \notin {"idle", "done"}
    /\ used.calls < MaxCalls
    /\ DiffDays(Now(clock), MomentOfDay(NPM_EPOCH)) >= Policy(name)[1]
    /\ requests' = [requests EXCEPT ![s] = NewCall(name)]
    /\ used' = [used EXCEPT !.calls = @ + 1]
    /\ UNCHANGED <<clock, call, result, package, package_id_seq, statistic>>

\* the callback of the select in findOrCreatePackage
Found(r, error, rows) ==
    IF error # ""
    THEN Finish(r, "select_package", error, <<>>)
    ELSE IF Len(rows) > 0
    THEN [Advance(r, "select_package", "", "select_statistic")
            EXCEPT !.package_row = rows[1]]
    ELSE Advance(r, "select_package", "", "insert_package")

\* findOrCreatePackage: the select comes back
FindPackage(s) ==
    LET r == requests[s]
    IN  /\ r.pc = "select_package"
        /\ \/ /\ CanFail
              /\ requests' = [requests EXCEPT ![s] = Found(r, DB_ERROR, <<>>)]
              /\ used' = Failed
           \/ /\ requests' = [requests EXCEPT ![s] =
                                Found(r, "", SelectPackage(r.name))]
              /\ UNCHANGED used
        /\ UNCHANGED <<clock, call, result, package, package_id_seq, statistic>>

\* the insert error is not looked at: the call goes on with insertRows[0]
Created_IgnoreError(r, error, rows) ==
    [Advance(r, "insert_package", error, "select_statistic")
        EXCEPT !.package_row = IF Len(rows) > 0 THEN rows[1] ELSE NoPackage]

\* the callback of the insert in findOrCreatePackage
Created(r, error, rows) ==
    IF error # ""
    THEN Finish(r, "insert_package", error, <<>>)
    ELSE [Advance(r, "insert_package", "", "select_statistic")
            EXCEPT !.package_row = rows[1]]

\* findOrCreatePackage: the insert comes back
CreatePackage(s) ==
    LET r == requests[s]
        done == InsertPackage(r.name)
    IN  /\ r.pc = "insert_package"
        /\ \/ /\ CanFail
              /\ requests' = [requests EXCEPT ![s] = Created(r, DB_ERROR, <<>>)]
              /\ used' = Failed
              /\ UNCHANGED <<package, package_id_seq>>
           \/ /\ requests' = [requests EXCEPT ![s] = Created(r, done.error, done.rows)]
              /\ package' = done.table
              /\ package_id_seq' = package_id_seq + 1
              /\ UNCHANGED used
        /\ UNCHANGED <<clock, call, result, statistic>>

\* [null, null] answered with an empty list
Loaded_ReturnNothing(r, error, local_statistics, decided) ==
    LET loaded == [r EXCEPT !.local_statistics = local_statistics,
                            !.decision = decided]
    IN  IF error # ""
        THEN Finish(r, "select_statistic", error, <<>>)
        ELSE IF decided.endpoints = <<>>
        THEN Finish(loaded, "select_statistic", "", <<>>)
        ELSE Advance(loaded, "select_statistic", "", "request")

\* a HEAD request is answered from the stored rows without a fetch
Loaded_HeadNoFetch(r, error, local_statistics, decided) ==
    LET loaded == [r EXCEPT !.local_statistics = local_statistics,
                            !.decision = decided]
    IN  IF error # ""
        THEN Finish(r, "select_statistic", error, <<>>)
        ELSE IF decided.status = "TypeError"
        THEN Advance(loaded, "select_statistic", "", "crashed")
        ELSE IF decided.endpoints = <<>> \/ r.method = "HEAD"
        THEN Finish(loaded, "select_statistic", "", local_statistics)
        ELSE Advance(loaded, "select_statistic", "", "request")

\* the callback of the select of the stored rows, steps 2 to 4: with
\* [null, null] the callback gets the rows, else the upstream request goes out
Loaded(r, error, local_statistics, decided) ==
    LET loaded == [r EXCEPT !.local_statistics = local_statistics,
                            !.decision = decided]
    IN  IF error # ""
        THEN Finish(r, "select_statistic", error, <<>>)
        ELSE IF decided.status = "TypeError"
        THEN Advance(loaded, "select_statistic", "", "crashed")
        ELSE IF decided.endpoints = <<>>
        THEN Finish(loaded, "select_statistic", "", local_statistics)
        ELSE Advance(loaded, "select_statistic", "", "request")

\* getPackageStatistics: the select of the stored rows comes back
LoadStatistics(s) ==
    LET r == requests[s]
    IN  /\ r.pc = "select_statistic"
        /\ \/ /\ CanFail
              /\ requests' = [requests EXCEPT ![s] =
                                Loaded(r, DB_ERROR, <<>>, Undecided)]
              /\ used' = Failed
           \/ /\ \E local_statistics \in {SelectStatistic(r.package_row.id)} :
                 \E decided \in {determineNeededEndpoints(local_statistics,
                                        r.min_range_days, r.max_range_days, clock)} :
                    requests' = [requests EXCEPT ![s] =
                                    Loaded(r, "", local_statistics, decided)]
              /\ UNCHANGED used
        /\ UNCHANGED <<clock, call, result, package, package_id_seq, statistic>>

\* every error of the body is taken for the no-data error
Fetched_AllErrorsNoData(r, response) ==
    LET got == getRangeStatistics(r.decision.endpoints[1], r.decision.endpoints[2],
                    [error |-> "",
                     body |-> [error |-> IF response.error # "" \/ response.body.error # ""
                                         THEN NO_STATS ELSE "",
                               downloads |-> response.body.downloads]])
    IN  [Advance([r EXCEPT !.response = response], "request", "", "insert_statistic")
            EXCEPT !.statistics = got.statistics]

\* the callback is called with the merged statistics before the insert is made
Fetched_RespondEarly(r, response) ==
    LET got == getRangeStatistics(r.decision.endpoints[1], r.decision.endpoints[2],
                                  response)
        received == [r EXCEPT !.response = response]
    IN  IF got.error # ""
        THEN Finish(received, "request", got.error, <<>>)
        ELSE Finish([received EXCEPT !.statistics = got.statistics], "request", "",
                    MergeStatistics(got.statistics, r.local_statistics))

\* the callback of getRangeStatistics, step 5: the response is normalized and
\* the multi-row insert goes out
Fetched(r, response) ==
    LET got == getRangeStatistics(r.decision.endpoints[1], r.decision.endpoints[2],
                                  response)
        received == [r EXCEPT !.response = response]
    IN  IF got.error # ""
        THEN Finish(received, "request", got.error, <<>>)
        ELSE [Advance(received, "request", "", "insert_statistic")
                EXCEPT !.statistics = got.statistics]

\* getRangeStatistics: the upstream response comes back
ReceiveResponse(s) ==
    LET r == requests[s]
    IN  /\ r.pc = "request"
        /\ \/ /\ CanFail
              /\ \E response \in UpstreamFailures :
                    requests' = [requests EXCEPT ![s] = Fetched(r, response)]
              /\ used' = Failed
           \/ /\ \E response \in
                    {[error |-> "",
                      body |-> UpstreamBody(r.name, r.decision.endpoints[1],
                                            r.decision.endpoints[2])]} :
                    requests' = [requests EXCEPT ![s] = Fetched(r, response)]
              /\ UNCHANGED used
        /\ UNCHANGED <<clock, call, result, package, package_id_seq, statistic>>

\* the error of the insert is dropped and the merged statistics are returned
Stored_IgnoreError(r, error) ==
    Finish(r, "insert_statistic", "",
           MergeStatistics(r.statistics, r.local_statistics))

\* the callback of the insert, step 6: the callback gets the merged statistics
Stored(r, error) ==
    IF error # ""
    THEN Finish(r, "insert_statistic", error, <<>>)
    ELSE Finish(r, "insert_statistic", "",
                MergeStatistics(r.statistics, r.local_statistics))

\* getPackageStatistics: the insert comes back
StoreStatistics(s) ==
    LET r == requests[s]
    IN  /\ r.pc = "insert_statistic"
        /\ \/ /\ CanFail
              /\ requests' = [requests EXCEPT ![s] = Stored(r, DB_ERROR)]
              /\ used' = Failed
              /\ UNCHANGED statistic
           \/ /\ \E done \in {ExecuteInsert(statistic,
                                buildMultirowInsert(r.package_row.id, r.statistics))} :
                    /\ requests' = [requests EXCEPT ![s] = Stored(r, done.error)]
                    /\ statistic' = done.table
              /\ UNCHANGED used
        /\ UNCHANGED <<clock, call, result, package, package_id_seq>>

\* an hour passes: the clock runs from 5am to 6am, where `now` moves on a day
Tick ==
    /\ HourOf(clock) < 6
    /\ clock' = clock + 1
    /\ UNCHANGED <<call, result, package, package_id_seq, statistic, requests, used>>

Init ==
    /\ clock \in SystemClocks
    /\ call = [fn |-> "getPackageStatistics"]
    /\ result = Pending
    /\ EmptyStore

Next ==
    \/ \E s \in Slots, name \in Names : StartCall(s, name)
    \/ \E s \in Slots : FindPackage(s)
    \/ \E s \in Slots : CreatePackage(s)
    \/ \E s \in Slots : LoadStatistics(s)
    \/ \E s \in Slots : ReceiveResponse(s)
    \/ \E s \in Slots : StoreStatistics(s)
    \/ Tick

Spec == Init /\ [][Next]_vars

----------------------------------------------------------------------------
(* Properties of determineNeededEndpoints, stated on calendar days.        *)

\* a call of determineNeededEndpoints has come back
Decided == call.fn = "determineNeededEndpoints" /\ result.status # "pending"

\* the call returned a range of two endpoints
RangeReturned ==
    Decided /\ result.status = "returned" /\ Len(result.endpoints) = 2

\* the call returned [null, null]
NoFetchNeeded ==
    Decided /\ result.status = "returned" /\ result.endpoints = <<>>

StartDay == result.endpoints[1] \div 24
EndDay == result.endpoints[2] \div 24
RangeDays == EndDay - StartDay + 1

\* the freshness rule: yesterday, or the day before when it is not yet 6am
FreshDay == (clock \div 24) - 1 - (IF clock % 24 < 6 THEN 1 ELSE 0)

Existing == call.statistics
EarliestDay == Existing[1].day
LatestDay ==
    IF Len(Existing) = 0 THEN ParseDay(2009, 9, 29) ELSE Existing[Len(Existing)].day

\* whole days from the latest record to now (never negative: no stored day
\* is after now)
GapDays == FreshDay - LatestDay

\* the number of consecutive records at the front with downloads = -1
LeadingMissing ==
    LET other == {i \in 1..Len(Existing) : Existing[i].downloads # -1}
    IN  IF other = {} THEN Len(Existing)
        ELSE Cardinality({i \in 1..Len(Existing) : \A j \in other : i < j})

MinOf(a, b) == IF a <= b THEN a ELSE b

ForwardCase == Decided /\ GapDays >= call.min_range_days
BackfillCase == Decided /\ GapDays < call.min_range_days

\* C1: when now - latest >= minGapDays the result is the forward-fill range
\* start = latest + 1 day, end = min(start + maxSpanDays - 1 days, now),
\* whatever the front of `existing` looks like.
C1_ForwardFillRange ==
    ForwardCase =>
        /\ RangeReturned
        /\ StartDay = LatestDay + 1
        /\ EndDay = MinOf(StartDay + call.max_range_days - 1, FreshDay)

\* a forward fill of a history whose front is a short run of -1 records
C1_Witness ==
    /\ ForwardCase /\ RangeReturned
    /\ Len(Existing) > 0
    /\ LeadingMissing = 1
    /\ EndDay = FreshDay /\ EndDay < StartDay + call.max_range_days - 1

\* C2: when now - latest < minGapDays, at most 180 leading -1 records give the
\* backfill range end = earliest - 1 day, start = end - maxSpanDays + 1 days,
\* and more than 180 give "no fetch needed".
C2_BackfillOrExhausted ==
    BackfillCase =>
        IF LeadingMissing > 180
        THEN NoFetchNeeded
        ELSE /\ RangeReturned
             /\ EndDay = EarliestDay - 1
             /\ StartDay = EndDay - call.max_range_days + 1

\* a backfill decided with exactly 180 leading -1 records
C2_Witness ==
    BackfillCase /\ LeadingMissing = 180 /\ RangeReturned /\ EndDay = EarliestDay - 1

\* C3 as stated: at least 181 leading -1 records always give "no fetch
\* needed", however far the latest record lies behind now.
C3_ExhaustedAlways ==
    (Decided /\ LeadingMissing >= 181) => NoFetchNeeded

\* C3: at least 181 leading -1 records give "no fetch needed" when the latest
\* record lies fewer than minGapDays days behind now, and the forward-fill
\* range from latest + 1 day when it lies minGapDays days or more behind.
C3_ExhaustedUnlessForwardGap ==
    (Decided /\ LeadingMissing >= 181) =>
        /\ GapDays < call.min_range_days => NoFetchNeeded
        /\ GapDays >= call.min_range_days =>
                RangeReturned /\ StartDay = LatestDay + 1

\* an exhausted backlog with a forward gap: the forward range is returned
C3_Witness ==
    Decided /\ LeadingMissing >= 181 /\ GapDays >= call.min_range_days /\ RangeReturned

\* C4 as stated: with `existing` empty the returned range ends at now.
C4_EmptyEndsAtNow ==
    (Decided /\ Len(Existing) = 0) => (RangeReturned /\ EndDay = FreshDay)

\* C4: with `existing` empty the result is never "no fetch needed": it is the
\* forward-fill range from epoch + 1 day to min(epoch + maxSpanDays days, now).
C4_EmptyForwardFromEpoch ==
    (Decided /\ Len(Existing) = 0) =>
        /\ ~NoFetchNeeded
        /\ RangeReturned
        /\ StartDay = ParseDay(2009, 9, 29) + 1
        /\ EndDay = MinOf(ParseDay(2009, 9, 29) + call.max_range_days, FreshDay)

\* an empty history decided under the all-packages policy
C4_Witness ==
    /\ Decided /\ Len(Existing) = 0 /\ RangeReturned
    /\ call.min_range_days = 5 /\ call.max_range_days = 10

\* the scenario of C5: nothing stored, policy (30, 180), 2024-03-10T12:00Z
C5_Scenario ==
    /\ Decided /\ Len(Existing) = 0
    /\ call.min_range_days = 30 /\ call.max_range_days = 180
    /\ clock = ParseDay(2024, 3, 10) * 24 + 12

\* C5: in the scenario the range starts at epoch + 1 day, 2009-09-30, and ends
\* at min(epoch + 180 days, now), which is 2010-03-28.
C5_ScenarioRange ==
    C5_Scenario =>
        /\ RangeReturned
        /\ FormatDay(StartDay) = <<2009, 9, 30>>
        /\ EndDay = MinOf(ParseDay(2009, 9, 29) + 180, FreshDay)
        /\ FormatDay(EndDay) = <<2010, 3, 28>>

C5_Witness == C5_Scenario /\ RangeReturned /\ RangeDays = 180

\* C6: no returned range starts after now, and a forward-fill range does not
\* end after now.
C6_NotIntoTheFuture ==
    RangeReturned =>
        /\ StartDay <= FreshDay
        /\ ForwardCase => EndDay <= FreshDay
        /\ result.endpoints[1] <= result.now

\* a forward fill cut short by now
C6_Witness ==
    /\ RangeReturned /\ ForwardCase /\ Len(Existing) > 0
    /\ EndDay = FreshDay
    /\ LatestDay + call.max_range_days > FreshDay

\* C7: a returned range holds no day that has a record in a non-empty
\* `existing`: forward fill lies after the latest day, backfill before the
\* earliest day.
C7_NoStoredDayRequested ==
    (RangeReturned /\ Len(Existing) > 0) =>
        /\ \A i \in 1..Len(Existing) : Existing[i].day \notin StartDay..EndDay
        /\ ForwardCase => StartDay > LatestDay
        /\ BackfillCase => EndDay < EarliestDay

\* a backfill next to a history with gaps
C7_Witness ==
    /\ RangeReturned /\ BackfillCase
    /\ Len(Existing) > 1 /\ Existing[2].day = EarliestDay + 2
    /\ EndDay = EarliestDay - 1

\* C8: a returned range has at most maxSpanDays days: between 1 and
\* maxSpanDays for a forward fill, exactly maxSpanDays for a backfill.
C8_RangeLength ==
    RangeReturned =>
        /\ RangeDays <= call.max_range_days
        /\ ForwardCase => RangeDays >= 1
        /\ BackfillCase => RangeDays = call.max_range_days

\* a forward fill of a single day under a policy that allows more
C8_Witness ==
    RangeReturned /\ ForwardCase /\ RangeDays = 1 /\ call.max_range_days > 1

\* C9: now is the current UTC date minus 1 day, and minus one more exactly
\* when the current UTC hour is before 6; never today or later.
C9_FreshnessRule ==
    Decided =>
        /\ result.now \div 24 =
                (clock \div 24) - (IF clock % 24 < 6 THEN 2 ELSE 1)
        /\ result.now \div 24 < clock \div 24

\* a decision taken at 5am, with now two days back
C9_Witness ==
    Decided /\ clock % 24 = 5 /\ result.now \div 24 = (clock \div 24) - 2

----------------------------------------------------------------------------
(* Properties of getRangeStatistics.                                       *)

\* a call of getRangeStatistics has come back
Normalized == call.fn = "getRangeStatistics" /\ result.status = "returned"

\* the response is a successful one or the no-data error
Answered ==
    /\ call.response.error = ""
    /\ call.response.body.error \in {"", NO_STATS}

FirstDay == call.start \div 24
LastDay == call.end \div 24

\* C10: for start <= end and a successful or no-data response the output has
\* exactly one record per day from start to end, ascending, none missing,
\* none twice and none outside the range.
C10_Dense ==
    (Normalized /\ Answered /\ FirstDay <= LastDay) =>
        /\ result.error = ""
        /\ Len(result.statistics) = LastDay - FirstDay + 1
        /\ \A i \in 1..Len(result.statistics) :
                result.statistics[i].day = FirstDay + i - 1

\* a sparse response that also reports a day outside the range
C10_Witness ==
    /\ Normalized /\ Answered
    /\ LastDay - FirstDay + 1 = 5
    /\ Len(call.response.body.downloads) = 2
    /\ call.response.body.downloads[1].day = FormatDay(FirstDay - 1)
    /\ call.response.body.downloads[2].day = FormatDay(FirstDay + 2)
    /\ Len(result.statistics) = 5

\* C11: the 0008 no-data error is not a failure: the output has one record
\* per day of [start, end], each with downloads = -1.
C11_NoStatsAllUnavailable ==
    (Normalized /\ call.response.error = ""
                /\ call.response.body.error = NO_STATS) =>
        /\ result.error = ""
        /\ Len(result.statistics) = LastDay - FirstDay + 1
        /\ \A i \in 1..Len(result.statistics) :
                /\ result.statistics[i].day = FirstDay + i - 1
                /\ result.statistics[i].downloads = -1

\* the scenario: 0008 for 2024-01-01..2024-01-05 gives five records of -1
C11_Witness ==
    /\ Normalized /\ call.response.body.error = NO_STATS
    /\ FormatDay(FirstDay) = <<2024, 1, 1>> /\ FormatDay(LastDay) = <<2024, 1, 5>>
    /\ Len(result.statistics) = 5
    /\ result.statistics[5].downloads = -1

\* the entries of the response that report day d
ReportsOf(d) ==
    {i \in 1..Len(call.response.body.downloads) :
        call.response.body.downloads[i].day = FormatDay(d)}

\* C12: for a successful response each day of [start, end] gets the reported
\* value (of the last entry for that day) when the response has one and 0
\* otherwise, and never -1.
C12_ReportedOrZero ==
    (Normalized /\ call.response.error = "" /\ call.response.body.error = "") =>
        /\ result.error = ""
        /\ Len(result.statistics) = LastDay - FirstDay + 1
        /\ \A i \in 1..Len(result.statistics) :
            LET d == FirstDay + i - 1
                reports == ReportsOf(d)
            IN  /\ result.statistics[i].downloads # -1
                /\ reports = {} => result.statistics[i].downloads = 0
                /\ reports # {} =>
                    \E k \in reports :
                        /\ \A j \in reports : j <= k
                        /\ result.statistics[i].downloads =
                                call.response.body.downloads[k].downloads

\* the scenario: counts for 01-02 and 01-04 only, within 01-01..01-05
C12_Witness ==
    /\ Normalized /\ call.response.error = "" /\ call.response.body.error = ""
    /\ LastDay - FirstDay + 1 = 5
    /\ call.response.body.downloads =
            <<[day |-> <<2024, 1, 2>>, downloads |-> 7],
              [day |-> <<2024, 1, 4>>, downloads |-> 9]>>
    /\ [i \in 1..5 |-> result.statistics[i].downloads] = <<0, 7, 0, 9, 0>>

----------------------------------------------------------------------------
(* Properties of getPackageStatistics under concurrent calls.              *)

Last(seq) == seq[Len(seq)]

\* the operations of a call that came back, in order
Ops(r) == [i \in 1..Len(r.trace) |-> r.trace[i].op]

\* the call of slot s is over and its callback got `error`
EndedWith(s, error) ==
    /\ requests[s].pc = "done"
    /\ requests[s].callback = <<[error |-> error, statistics |-> <<>>]>>

\* the upstream call failed: a transport error, or an error in the body other
\* than the no-data error
UpstreamFailed(response) ==
    /\ response # NoResponse
    /\ response.error # "" \/ response.body.error \notin {"", NO_STATS}

UpstreamError(response) ==
    IF response.error # "" THEN response.error ELSE response.body.error

\* the rows of the statistic table for a package, as a set
StoredRows(package_id) ==
    {statistic[i] : i \in {j \in 1..Len(statistic) : statistic[j].package_id = package_id}}

\* C13: when the upstream call fails at transport level or its response
\* carries an error other than the 0008 no-data error, the call ends with that
\* error, makes no insert into the statistic table, and the stored statistic
\* rows are unchanged.
C13_UpstreamFailureAborts ==
    [][\A s \in Slots :
        (requests[s].pc = "request" /\ UpstreamFailed(requests'[s].response)) =>
            /\ requests'[s].pc = "done"
            /\ requests'[s].callback =
                    <<[error |-> UpstreamError(requests'[s].response),
                       statistics |-> <<>>]>>
            /\ \A i \in 1..Len(requests'[s].trace) :
                    requests'[s].trace[i].op # "insert_statistic"
            /\ statistic' = statistic]_vars

\* C13 witness: a call that had loaded stored rows has ended on the error of
\* the body of its upstream response
C13_Witness ==
    \E s \in Slots :
        /\ Len(requests[s].local_statistics) > 0
        /\ requests[s].response.body.error = "package not found"
        /\ EndedWith(s, "package not found")
        /\ StoredRows(requests[s].package_row.id) # {}

\* the steps of the chain
Steps == {"select_package", "insert_package", "select_statistic", "request",
          "insert_statistic"}

\* C14: a failure of the package select, the package insert, the select of the
\* stored rows, the upstream fetch or the bulk insert aborts the call at that
\* step: the callback gets the error, it is called once, no later step of the
\* chain runs, and no statistic rows are returned.
C14_FailureAborts ==
    \A s \in Slots :
        LET r == requests[s]
        IN  /\ Len(r.callback) <= 1
            /\ \A i \in 1..Len(r.trace) :
                    /\ r.trace[i].op \in Steps
                    /\ r.trace[i].error # "" =>
                            /\ i = Len(r.trace)
                            /\ r.pc = "done"
                            /\ r.callback = <<[error |-> r.trace[i].error,
                                               statistics |-> <<>>]>>

\* C14 witness: a call has failed in its package insert while another failed
\* in its bulk insert
C14_Witness ==
    \E s, t \in Slots :
        /\ requests[s].pc = "done" /\ Last(requests[s].trace).op = "insert_package"
        /\ Last(requests[s].trace).error # ""
        /\ requests[t].pc = "done" /\ Last(requests[t].trace).op = "insert_statistic"
        /\ Last(requests[t].trace).error # ""

\* the reconciler signalled "no fetch needed" to the call
NoFetchSignalled(r) ==
    r.decision.status = "returned" /\ r.decision.endpoints = <<>>

\* C15: when the reconciler signals "no fetch needed", the call returns
\* exactly the rows loaded from the store, makes no upstream request and no
\* write: the statistic table is as it was.
C15_NoFetchReturnsStored ==
    [][\A s \in Slots :
        (requests[s].pc = "select_statistic" /\ NoFetchSignalled(requests'[s])) =>
            /\ requests'[s].pc = "done"
            /\ requests'[s].callback =
                    <<[error |-> "",
                       statistics |-> SelectStatistic(requests[s].package_row.id)]>>
            /\ \A i \in 1..Len(requests'[s].trace) :
                    requests'[s].trace[i].op \notin {"request", "insert_statistic"}
            /\ requests'[s].response = NoResponse
            /\ statistic' = statistic]_vars

\* C15 witness: a call was answered with its stored rows, of which more than
\* 180 lead with -1, without a request
C15_Witness ==
    \E s \in Slots :
        /\ requests[s].pc = "done" /\ NoFetchSignalled(requests[s])
        /\ Len(requests[s].callback) = 1
        /\ requests[s].callback[1].error = ""
        /\ countMissingStatistics(requests[s].callback[1].statistics) > BacklogLimit
        /\ Last(requests[s].trace).op = "select_statistic"

\* the call of slot s is over and its callback got statistics
Succeeded(r) ==
    r.pc = "done" /\ Len(r.callback) = 1 /\ r.callback[1].error = ""

\* the first and last day of the range decided for a call
FirstFetchDay(r) == DayOf(r.decision.endpoints[1])
LastFetchDay(r) == DayOf(r.decision.endpoints[2])

\* the normalized rows of the decided range of a call, as rows of the table
NormalizedRows(r) ==
    LET got == getRangeStatistics(r.decision.endpoints[1], r.decision.endpoints[2],
                                  r.response).statistics
    IN  [i \in 1..(LastFetchDay(r) - FirstFetchDay(r) + 1) |->
            [package_id |-> r.package_row.id,
             day |-> FormatDay(FirstFetchDay(r) + i - 1),
             downloads |-> got[i].downloads]]

Elements(seq) == {seq[i] : i \in 1..Len(seq)}

\* C16: when a fetch is decided and every step succeeds, the call inserts
\* exactly the normalized rows of the decided range for its package in one
\* multi-row insert, and returns the union of the loaded rows and the fetched
\* rows, ascending by day, with no day twice.
C16_FetchStoresAndMerges ==
    [][\A s \in Slots :
        (requests[s].pc = "insert_statistic" /\ Succeeded(requests'[s])) =>
            LET r == requests[s]
                returned == requests'[s].callback[1].statistics
            IN  /\ statistic' = statistic \o NormalizedRows(r)
                /\ Len(NormalizedRows(r)) > 0
                /\ Cardinality({i \in 1..Len(requests'[s].trace) :
                        requests'[s].trace[i].op = "insert_statistic"}) = 1
                /\ Elements(returned) =
                        Elements(r.local_statistics) \cup
                        {[day |-> DateDay(row.day), downloads |-> row.downloads] :
                            row \in Elements(NormalizedRows(r))}
                /\ Len(returned) = Len(r.local_statistics) + Len(NormalizedRows(r))
                /\ \A i \in 1..(Len(returned) - 1) :
                        returned[i].day < returned[i + 1].day]_vars

\* C16 witness: a call that had loaded rows has stored a later range, in which
\* the upstream reported some days and left out others, and was answered
C16_Witness ==
    \E s \in Slots :
        LET r == requests[s]
        IN  /\ Succeeded(r) /\ Last(r.trace).op = "insert_statistic"
            /\ Len(r.local_statistics) > 0
            /\ FirstFetchDay(r) > Last(r.local_statistics).day
            /\ r.response.error = "" /\ r.response.body.error = ""
            /\ 0 < Len(r.response.body.downloads)
            /\ Len(r.response.body.downloads) < Len(r.statistics)
            /\ Len(r.callback[1].statistics) =
                    Len(r.local_statistics) + Len(r.statistics)

\* the place of a step in the chain
Rank(op) ==
    CASE op = "select_package" -> 1
      [] op = "insert_package" -> 2
      [] op = "select_statistic" -> 3
      [] op = "request" -> 4
      [] op = "insert_statistic" -> 5

\* C17: at every step of a call: the call has made at most one upstream
\* request and at most one statistic insert, in the order resolve package,
\* read the stored rows, request, insert, response; the insert follows the
\* normalized upstream response, and the response of a call that fetched
\* follows the end of its insert.
C17_OneChainInOrder ==
    [][\A s \in Slots :
        requests'[s] # requests[s] =>
            \A ops \in {Ops(requests'[s])} :
                /\ \A i \in 1..(Len(ops) - 1) : Rank(ops[i]) < Rank(ops[i + 1])
                /\ Len(ops) > 0 => ops[1] = "select_package"
                /\ \A i \in 2..Len(ops) :
                        /\ ops[i] = "select_statistic" =>
                                ops[i - 1] \in {"select_package", "insert_package"}
                        /\ ops[i] = "request" => ops[i - 1] = "select_statistic"
                        /\ ops[i] = "insert_statistic" => ops[i - 1] = "request"
                /\ (requests'[s].pc = "insert_statistic" \/
                    \E i \in 1..Len(ops) : ops[i] = "insert_statistic") =>
                        /\ requests'[s].response # NoResponse
                        /\ requests'[s].statistics =
                                getRangeStatistics(
                                    requests'[s].decision.endpoints[1],
                                    requests'[s].decision.endpoints[2],
                                    requests'[s].response).statistics
                /\ Len(requests'[s].callback) > 0 =>
                        /\ requests'[s].pc = "done"
                        /\ Len(requests'[s].callback) = 1
                        /\ Succeeded(requests'[s]) =>
                                Last(ops) \in {"select_statistic", "insert_statistic"}]_vars

\* C17 witness: a call went through all five steps and was answered
C17_Witness ==
    \E s \in Slots :
        /\ Succeeded(requests[s])
        /\ Ops(requests[s]) = <<"select_package", "insert_package",
                                "select_statistic", "request", "insert_statistic">>

\* C18: in every interleaving of concurrent calls the statistic table never
\* holds two rows for the same (package, day); an insert of a range of which
\* a row is stored already is rejected and adds no row.
C18_NoDuplicateStatistic ==
    [][/\ Cardinality(Keys(statistic')) = Len(statistic')
       /\ \A s \in Slots :
            (/\ requests[s].pc = "insert_statistic"
             /\ requests'[s].pc = "done"
             /\ Keys(buildMultirowInsert(requests[s].package_row.id,
                                         requests[s].statistics))
                    \cap Keys(statistic) # {}) =>
                /\ statistic' = statistic
                /\ Len(requests'[s].callback) = 1
                /\ requests'[s].callback[1].error \in {UNIQUE_VIOLATION, DB_ERROR}
                /\ requests'[s].callback[1].statistics = <<>>]_vars

\* C18 witness: two calls for one package read the same rows and decided the
\* same range; the insert of one was made, that of the other rejected
C18_Witness ==
    \E s, t \in Slots :
        /\ s # t
        /\ requests[s].package_row = requests[t].package_row
        /\ requests[s].local_statistics = requests[t].local_statistics
        /\ requests[s].decision.endpoints = requests[t].decision.endpoints
        /\ Succeeded(requests[s]) /\ Last(requests[s].trace).op = "insert_statistic"
        /\ EndedWith(t, UNIQUE_VIOLATION)
        /\ Last(requests[t].trace).op = "insert_statistic"
        /\ Len(statistic) > 0 /\ Cardinality(Keys(statistic)) = Len(statistic)

\* the rows of the package table for a name
PackageRows(name) == {i \in 1..Len(package) : package[i].name = name}

\* C19: in every interleaving of concurrent first requests for a new name the
\* package table has one row for that name; a request whose package insert is
\* rejected ends with the error, and no request goes on without a package row.
C19_OnePackagePerName ==
    /\ \A name \in Names : Cardinality(PackageRows(name)) <= 1
    /\ \A s \in Slots :
        LET r == requests[s]
        IN  /\ \A i \in 1..Len(r.trace) :
                    (r.trace[i].op = "insert_package" /\ r.trace[i].error # "") =>
                        EndedWith(s, r.trace[i].error)
            /\ (\E i \in 1..Len(r.trace) :
                    r.trace[i].op = "insert_package" /\ r.trace[i].error = "") =>
                        Cardinality(PackageRows(r.name)) = 1
            /\ r.pc \in {"select_statistic", "request", "insert_statistic"} =>
                    /\ r.package_row # NoPackage
                    /\ r.package_row.name = r.name
                    /\ r.package_row \in Elements(package)

\* C19 witness: two calls for one new name both found no package row and both
\* made the insert; one row is stored and the other call has ended with the
\* rejection
C19_Witness ==
    \E s, t \in Slots :
        /\ s # t /\ requests[s].name = requests[t].name
        /\ Len(requests[s].trace) >= 2 /\ requests[s].trace[2].op = "insert_package"
        /\ requests[s].trace[2].error = ""
        /\ requests[s].package_row \in Elements(package)
        /\ EndedWith(t, UNIQUE_VIOLATION)
        /\ Last(requests[t].trace).op = "insert_package"
        /\ Cardinality(PackageRows(requests[t].name)) = 1

\* C20: on success the call returns every statistic row that is stored for
\* its package at the moment it completes, also when another call wrote rows
\* between its read of the stored rows and its response.
C20_ReturnsAllStored ==
    [][\A s \in Slots :
        (requests[s].pc # "done" /\ Succeeded(requests'[s])) =>
            \A i \in 1..Len(statistic') :
                statistic'[i].package_id = requests'[s].package_row.id =>
                    [day |-> DateDay(statistic'[i].day),
                     downloads |-> statistic'[i].downloads]
                        \in Elements(requests'[s].callback[1].statistics)]_vars

\* C21: statistic rows are append-only: in every step the stored rows stay,
\* each with its downloads, and the only change of the table is rows with new
\* (package, day) keys added behind them.
C21_AppendOnly ==
    [][statistic' # statistic =>
       /\ Len(statistic') >= Len(statistic)
       /\ SubSeq(statistic', 1, Len(statistic)) = statistic
       /\ \A i \in 1..Len(statistic) : \A j \in 1..Len(statistic') :
            (/\ statistic'[j].package_id = statistic[i].package_id
             /\ statistic'[j].day = statistic[i].day) =>
                    statistic'[j].downloads = statistic[i].downloads
       /\ Keys(SubSeq(statistic', Len(statistic) + 1, Len(statistic')))
            \cap Keys(statistic) = {}]_vars

\* C21 witness: rows were added behind stored rows of the same package, and an
\* insert of stored days was turned down
C21_Witness ==
    \E s, t \in Slots :
        /\ Succeeded(requests[s]) /\ Last(requests[s].trace).op = "insert_statistic"
        /\ Len(requests[s].local_statistics) > 0
        /\ Len(statistic) > Len(requests[s].statistics)
        /\ EndedWith(t, UNIQUE_VIOLATION)
        /\ Last(requests[t].trace).op = "insert_statistic"

\* the (package, day) keys of the range decided for a call
RangeKeys(r) == Keys(NormalizedRows(r))

\* C22: no partial range is stored: the insert of a call stores all rows of
\* its decided range or none, also when only some of its days are stored
\* already by a concurrent call; no other step of a call writes.
C22_AllOrNothing ==
    [][/\ statistic' # statistic =>
            \E s \in Slots :
                /\ requests[s].pc = "insert_statistic" /\ Succeeded(requests'[s])
                /\ statistic' = statistic \o NormalizedRows(requests[s])
       /\ \A s \in Slots :
            (/\ requests[s].pc = "insert_statistic" /\ requests'[s].pc = "done"
             /\ RangeKeys(requests[s]) \cap Keys(statistic) # {}) =>
                /\ statistic' = statistic
                /\ ~Succeeded(requests'[s])]_vars

\* C22 witness: the insert of a call was turned down for the days a concurrent
\* call had stored, and the day of its range that was not stored is not stored
C22_Witness ==
    \E s, t \in Slots :
        /\ s # t /\ requests[s].package_row = requests[t].package_row
        /\ Succeeded(requests[s]) /\ Last(requests[s].trace).op = "insert_statistic"
        /\ EndedWith(t, UNIQUE_VIOLATION)
        /\ Last(requests[t].trace).op = "insert_statistic"
        /\ RangeKeys(requests[s]) \subseteq Keys(statistic)
        /\ RangeKeys(requests[s]) \subseteq RangeKeys(requests[t])
        /\ RangeKeys(requests[t]) \ Keys(statistic) # {}

C24_RoutePolicy ==
    \A s \in Slots :
        LET r == requests[s]
        IN  r.pc # "idle" =>
                /\ r.name = "" => r.min_range_days = 5 /\ r.max_range_days = 10
                /\ r.name # "" => r.min_range_days = 30 /\ r.max_range_days = 180
                /\ r.min_range_days <= r.max_range_days

\* C24 witness: a call for the empty name and a call for a package are under
\* way at once
C24_Witness ==
    \E s, t \in Slots :
        /\ requests[s].pc = "request" /\ requests[s].name = ""
        /\ requests[s].max_range_days = 10
        /\ requests[t].pc = "request" /\ requests[t].name = "left-pad"
        /\ requests[t].max_range_days = 180

----------------------------------------------------------------------------
(* The averages query: the view package_statistic, queryAverageDownloads    *)
(* and the route GET /packages/averages.  A query parameter is a date       *)
(* <<y, m, d>>, or <<>> when it is missing.                                 *)

\* CREATE VIEW package_statistic: statistic joined with package on the id
package_statistic ==
    {[name |-> package[j].name, day |-> statistic[i].day,
      downloads |-> statistic[i].downloads] :
        <<i, j>> \in {p \in (1..Len(statistic)) \X (1..Len(package)) :
                        package[p[2]].id = statistic[p[1]].package_id}}

\* the bounds are compared as times of day with the midnight of the row
Selected_ByMoment(start, end) ==
    {v \in package_statistic :
        /\ v.downloads > -1
        /\ MomentOfDay(DateDay(v.day)) >= start
        /\ MomentOfDay(DateDay(v.day)) < end}

\* .where('downloads > -1').where('day >= ?', start.toDate())
\* .where('day < ?', end.toDate()): the parameter of a comparison with the
\* DATE column is read as a DATE, the day of the moment
Selected(start, end) ==
    {v \in package_statistic :
        /\ v.downloads > -1
        /\ DateDay(v.day) >= DayOf(start)
        /\ DateDay(v.day) < DayOf(end)}

RECURSIVE SumDownloads(_)
SumDownloads(rows) ==
    IF rows = {} THEN 0
    ELSE LET v == CHOOSE v \in rows : TRUE
         IN  v.downloads + SumDownloads(rows \ {v})

\* AVG(downloads)::int of a group without negative values: the mean, rounded
\* to the nearest integer, a half upwards
Average(rows) ==
    (2 * SumDownloads(rows) + Cardinality(rows)) \div (2 * Cardinality(rows))

\* the names the tables can hold, in the order of ORDER BY name
NameOrder == <<"", "express", "left-pad">>

\* the rows of the select: .groupBy('name').orderBy('name')
AverageRows(start, end) ==
    LET names == SelectSeq(NameOrder,
                    LAMBDA n : \E v \in Selected(start, end) : v.name = n)
    IN  [i \in 1..Len(names) |->
            [name |-> names[i],
             average |-> Average({v \in Selected(start, end) : v.name = names[i]})]]

\* what queryAverageDownloads passes to its callback when the select comes
\* back with `error`: packages[row.name] = row.average for each row
queryAverageDownloads(start, end, error) ==
    LET rows == AverageRows(start, end)
    IN  IF error # ""
        THEN [error |-> error, rows |-> <<>>, packages |-> <<>>]
        ELSE [error |-> "", rows |-> rows,
              packages |-> [n \in {rows[i].name : i \in 1..Len(rows)} |->
                                (CHOOSE r \in Elements(rows) : r.name = n).average]]

\* moment(query.end): the midnight of the date of the parameter
ParseMoment(date) == MomentOfDay(ParseDay(date[1], date[2], date[3]))

\* query.end ? moment(query.end) : moment()
QueryEnd(query, utc) ==
    IF query.end # <<>> THEN ParseMoment(query.end) ELSE utc

\* a missing start is taken 60 days before the current time
QueryStart_FromNow(query, end) ==
    IF query.start # <<>> THEN ParseMoment(query.start) ELSE AddDays(clock, -60)

\* query.start ? moment(query.start) : end.clone().subtract(60, 'days')
QueryStart(query, end) ==
    IF query.start # <<>> THEN ParseMoment(query.start) ELSE AddDays(end, -60)

\* every answer of the averages route is sent with the status of success
AveragesResponse_AlwaysOk(error, packages) ==
    [status |-> 200, content_type |-> "application/json", body |-> packages]

\* the response of the averages route to what its callback gets
AveragesResponse(error, packages) ==
    IF error # ""
    THEN [status |-> 500, content_type |-> "",
          body |-> <<"error getting package averages: ", error>>]
    ELSE [status |-> 200, content_type |-> "application/json", body |-> packages]

\* the route GET /packages/averages as a whole: the query is parsed, the
\* select comes back with `error`, the response is sent
AveragesRoute(query, utc, error) ==
    LET end == QueryEnd(query, utc)
        start == QueryStart(query, end)
        got == queryAverageDownloads(start, end, error)
    IN  [status |-> "responded", start |-> start, end |-> end,
         rows |-> got.rows,
         callback |-> <<[error |-> got.error, packages |-> got.packages]>>,
         responses |-> <<AveragesResponse(got.error, got.packages)>>]

----------------------------------------------------------------------------
(* Requests of GET /packages/averages over bounded tables.                 *)

MaxStored == 3      \* rows of the statistic table

\* the request comes at noon of 2024-03-10; rows are stored for that day, the
\* day before and the day 60 days before
Today == ParseDay(2024, 3, 10)
StoredDays == <<Today - 60, Today - 1, Today>>
StoredDownloads == {-1, 3, 8}

\* three packages, created in another order than that of their names
StoredPackages ==
    <<[id |-> 1, name |-> "left-pad"], [id |-> 2, name |-> ""],
      [id |-> 3, name |-> "express"]>>

\* the (package_id, day) keys a row can have
Cells ==
    [k \in 1..(Len(StoredPackages) * Len(StoredDays)) |->
        [package_id |-> ((k - 1) \div Len(StoredDays)) + 1,
         day |-> FormatDay(StoredDays[((k - 1) % Len(StoredDays)) + 1])]]

\* the parameters a request can carry
QueryDates == {<<>>, FormatDay(Today - 60), FormatDay(Today - 1), FormatDay(Today)}

InitAverages ==
    /\ clock = MomentOfDay(Today) + 12
    /\ package = StoredPackages
    /\ package_id_seq = Len(StoredPackages) + 1
    /\ \E chosen \in SUBSET (1..Len(Cells)) :
        /\ Cardinality(chosen) <= MaxStored
        /\ \E downloads \in [chosen -> StoredDownloads] :
            LET keys == SelectSeq([k \in 1..Len(Cells) |-> k], LAMBDA k : k \in chosen)
            IN  statistic = [i \in 1..Len(keys) |->
                                [package_id |-> Cells[keys[i]].package_id,
                                 day |-> Cells[keys[i]].day,
                                 downloads |-> downloads[keys[i]]]]
    /\ requests = [s \in Slots |-> Idle]
    /\ used = [calls |-> 0, failures |-> 0]
    /\ \E start \in QueryDates, end \in QueryDates :
        call = [fn |-> "GET /packages/averages",
                query |-> [start |-> start, end |-> end]]
    /\ result = [status |-> "pending", start |-> 0, end |-> 0, rows |-> <<>>,
                 callback |-> <<>>, responses |-> <<>>]

GetAverages ==
    /\ call.fn = "GET /packages/averages"
    /\ result.status = "pending"
    /\ \E error \in {"", DB_ERROR} :
        result' = AveragesRoute(call.query, clock, error)
    /\ UNCHANGED <<clock, call>>
    /\ UNCHANGED store

NextAverages == GetAverages

SpecAverages == InitAverages /\ [][NextAverages]_vars

----------------------------------------------------------------------------
(* Properties of the averages query.                                       *)

\* the request was answered without an error
Averaged(r) ==
    r.status = "responded" /\ Len(r.callback) = 1 /\ r.callback[1].error = ""

\* the averages by name of a set of rows of the view
AveragesOf(rows) ==
    [n \in {v.name : v \in rows} |-> Average({v \in rows : v.name = n})]

\* the stored rows with start <= day < end and downloads > -1
InWindow(start, end) ==
    {v \in package_statistic :
        /\ v.downloads > -1
        /\ DayOf(start) <= DateDay(v.day)
        /\ DateDay(v.day) < DayOf(end)}

\* the place of a name in the ascending order of names
NameRank(name) == CHOOSE i \in 1..Len(NameOrder) : NameOrder[i] = name

\* C27: queryAverageDownloads(start, end) averages, by package name, only the
\* stored rows with start <= day < end and downloads > -1: rows with -1 do
\* not contribute, a row on day `end` is excluded, a package without such a
\* row is absent, the groups are in ascending order of the names, and nothing
\* is written.
C27_AveragesWindow ==
    [][(result.status = "pending" /\ Averaged(result')) =>
        LET packages == result'.callback[1].packages
            rows == result'.rows
        IN  /\ packages = AveragesOf(InWindow(result'.start, result'.end))
            /\ packages = AveragesOf({v \in InWindow(result'.start, result'.end) :
                                        DateDay(v.day) # DayOf(result'.end)})
            /\ \A n \in DOMAIN packages :
                    /\ packages[n] >= 0
                    /\ \E v \in package_statistic :
                            v.name = n /\ v.downloads > -1
                                /\ DateDay(v.day) # DayOf(result'.end)
            /\ \A i \in 1..(Len(rows) - 1) :
                    NameRank(rows[i].name) < NameRank(rows[i + 1].name)
            /\ \A i \in 1..Len(rows) :
                    rows[i].name \in DOMAIN packages
                        /\ packages[rows[i].name] = rows[i].average
            /\ Len(rows) = Cardinality(DOMAIN packages)
            /\ statistic' = statistic /\ package' = package]_vars

\* C27 witness: a request without parameters at noon was answered with the
\* averages of two packages; a row of the day of `end` is stored for one of
\* them with other downloads than its average
C27_Witness ==
    /\ Averaged(result) /\ call.query.end = <<>>
    /\ Len(result.rows) = 2
    /\ DOMAIN result.callback[1].packages = {"", "left-pad"}
    /\ \E v \in package_statistic :
            /\ DateDay(v.day) = DayOf(result.end) /\ v.name = "left-pad"
            /\ v.downloads > -1
            /\ v.downloads # result.callback[1].packages["left-pad"]
    /\ Len(statistic) = 3

\* C28: for GET /packages/averages a missing `end` is the current date and a
\* missing `start` is 60 days before the end, given or defaulted.
C28_QueryDefaults ==
    result.status = "responded" =>
        /\ call.query.end = <<>> =>
                result.end = clock /\ FormatDay(DayOf(result.end)) = FormatDay(DayOf(clock))
        /\ call.query.end # <<>> => FormatDay(DayOf(result.end)) = call.query.end
        /\ call.query.start = <<>> =>
                /\ result.start = result.end - 60 * 24
                /\ DayOf(result.start) = DayOf(result.end) - 60
        /\ call.query.start # <<>> => FormatDay(DayOf(result.start)) = call.query.start

\* C28 witness: a request with an `end` of the day before and without `start`
\* was answered for the 60 days before that day
C28_Witness ==
    /\ result.status = "responded"
    /\ call.query.start = <<>> /\ call.query.end = <<2024, 3, 9>>
    /\ FormatDay(DayOf(result.start)) = <<2024, 1, 9>>
    /\ Len(result.responses) = 1

----------------------------------------------------------------------------
(* Properties of the reconciler and of the orchestrator over time.         *)

\* C29: the backfill branch, which reads statistics[0], is not reached with
\* an empty `existing`: whenever `now` is at least minGapDays days after
\* 2009-09-29 the forward-fill case is taken, from the day after the epoch.
C29_EmptyNeverBackfills ==
    (Decided /\ Len(Existing) = 0
        /\ FreshDay - ParseDay(2009, 9, 29) >= call.min_range_days) =>
            /\ result.status # "TypeError"
            /\ RangeReturned
            /\ StartDay = ParseDay(2009, 9, 29) + 1
            /\ StartDay <= EndDay /\ EndDay <= FreshDay

\* C29 witness: nothing stored and `now` exactly min_range_days days after the
\* epoch, under the policy of a package
C29_Witness ==
    /\ Decided /\ Len(Existing) = 0
    /\ call.min_range_days = 30 /\ call.max_range_days = 180
    /\ FreshDay - ParseDay(2009, 9, 29) = 30
    /\ RangeReturned /\ EndDay = FreshDay

----------------------------------------------------------------------------
(* The routes of the controller, and requests served one after another.    *)

\* the body is sent to HEAD as well
DownloadsResponse_HeadWithBody(method, error, statistics) ==
    IF error # ""
    THEN [status |-> 500, content_type |-> "",
          body |-> <<"error getting package statistics: ", error>>]
    ELSE [status |-> 200, content_type |-> "application/json",
          body |-> [i \in 1..Len(statistics) |->
                        [day |-> FormatDay(statistics[i].day),
                         downloads |-> statistics[i].downloads]]]

\* the response of the downloads route to what its callback gets: 500 and a
\* text, or the statistics as JSON with the days formatted, nothing for HEAD
DownloadsResponse(method, error, statistics) ==
    IF error # ""
    THEN [status |-> 500, content_type |-> "",
          body |-> <<"error getting package statistics: ", error>>]
    ELSE IF method = "HEAD"
    THEN [status |-> 200, content_type |-> "application/json", body |-> <<>>]
    ELSE [status |-> 200, content_type |-> "application/json",
          body |-> [i \in 1..Len(statistics) |->
                        [day |-> FormatDay(statistics[i].day),
                         downloads |-> statistics[i].downloads]]]

\* the responses a request of `method` has got: one for each call of the callback
DownloadsResponses(method, r) ==
    [i \in 1..Len(r.callback) |->
        DownloadsResponse(method, r.callback[i].error, r.callback[i].statistics)]

Methods == {"GET", "HEAD"}

\* no request of GET /packages/averages is answered
NoAverages ==
    [status |-> "pending", start |-> 0, end |-> 0, rows |-> <<>>,
     callback |-> <<>>, responses |-> <<>>]

\* a request of the downloads route comes when the one before it is answered;
\* the requests of a run are for one package
SequentialCall(name) ==
    /\ requests[1].pc \in {"idle", "done"}
    /\ \A i \in 1..Len(package) : package[i].name = name
    /\ DiffDays(Now(clock), MomentOfDay(NPM_EPOCH)) >= Policy(name)[1]
    /\ requests' = [requests EXCEPT ![1] = NewCall(name)]
    /\ UNCHANGED <<clock, call, result, package, package_id_seq, statistic, used>>

\* a request of GET /packages/averages without parameters comes between two
\* requests of the downloads route; its select fails or comes back
ServeAverages ==
    /\ requests[1].pc \in {"idle", "done"}
    /\ result.status = "pending"
    /\ \/ /\ CanFail
          /\ result' = AveragesRoute([start |-> <<>>, end |-> <<>>], clock, DB_ERROR)
          /\ used' = Failed
       \/ /\ result' = AveragesRoute([start |-> <<>>, end |-> <<>>], clock, "")
          /\ UNCHANGED used
    /\ UNCHANGED <<clock, call, requests, package, package_id_seq, statistic>>

InitSequential ==
    /\ clock \in SystemClocks
    /\ call = [fn |-> "getPackageStatistics"]
    /\ result = NoAverages
    /\ EmptyStore

NextSequential ==
    \/ \E name \in Names : SequentialCall(name)
    \/ FindPackage(1)
    \/ CreatePackage(1)
    \/ LoadStatistics(1)
    \/ ReceiveResponse(1)
    \/ StoreStatistics(1)

\* the clock stands still, every operation under way comes back, and each
\* name is requested again and again
SpecSequential ==
    /\ InitSequential
    /\ [][NextSequential]_vars
    /\ WF_vars(FindPackage(1)) /\ WF_vars(CreatePackage(1))
    /\ WF_vars(LoadStatistics(1)) /\ WF_vars(ReceiveResponse(1))
    /\ WF_vars(StoreStatistics(1))
    /\ \A name \in Names : SF_vars(SequentialCall(name))

\* a HEAD request of the downloads route: the handler of R.any makes the same
\* call of getPackageStatistics
SequentialHead(name) ==
    /\ requests[1].pc \in {"idle", "done"}
    /\ \A i \in 1..Len(package) : package[i].name = name
    /\ DiffDays(Now(clock), MomentOfDay(NPM_EPOCH)) >= Policy(name)[1]
    /\ requests' = [requests EXCEPT ![1] = [NewCall(name) EXCEPT !.method = "HEAD"]]
    /\ UNCHANGED <<clock, call, result, package, package_id_seq, statistic, used>>

\* the requests of both routes, one at a time
NextRoutes ==
    \/ NextSequential
    \/ \E name \in Names : SequentialHead(name)
    \/ ServeAverages

SpecRoutes == InitSequential /\ [][NextRoutes]_vars

\* what a call for `name` that read the stored rows now would decide
DecisionFor(name) ==
    CHOOSE decided \in
        {determineNeededEndpoints(local_statistics, Policy(name)[1],
                                  Policy(name)[2], clock) :
            local_statistics \in {SelectStatistic(SelectPackage(name)[1].id)}} : TRUE

\* a package row is stored for `name` and the decision is "no fetch needed"
NoFetchFor(name) ==
    /\ Len(SelectPackage(name)) > 0
    /\ \E decided \in {DecisionFor(name)} :
            decided.status = "returned" /\ decided.endpoints = <<>>

\* C30: backward probing stops: with the clock fixed and an upstream that
\* answers the no-data error for every range before the first day it has
\* counts for, repeated sequential calls for a package reach a state in which
\* the decision is "no fetch needed"; from then on every call is "no fetch
\* needed" and the store stays as it is.
C30_ProbingStops ==
    /\ <>[](\E name \in Names : NoFetchFor(name))
    /\ [][\A name \in Names :
            NoFetchFor(name) =>
                /\ NoFetchFor(name)'
                /\ statistic' = statistic /\ package' = package
                /\ (/\ requests[1].pc = "select_statistic"
                    /\ requests'[1].pc # "select_statistic"
                    /\ Last(requests'[1].trace).error = "") =>
                        (NoFetchSignalled(requests'[1]) /\ Succeeded(requests'[1]))]_vars

\* C30 witness: after the forward ranges and the probes before the epoch, more
\* than 180 rows of -1 lead the rows of the package and a call was answered
\* without a fetch
C30_Witness ==
    /\ NoFetchFor("")
    /\ countMissingStatistics(SelectStatistic(SelectPackage("")[1].id)) > BacklogLimit
    /\ Len(statistic) > BacklogLimit + 10
    /\ requests[1].pc = "done" /\ NoFetchSignalled(requests[1])
    /\ Succeeded(requests[1])

----------------------------------------------------------------------------
(* The responses of the two routes.                                        *)

\* the text sent with status 500 by the downloads route
DownloadsErrorText(error) == <<"error getting package statistics: ", error>>

\* the text sent with status 500 by the averages route
AveragesErrorText(error) == <<"error getting package averages: ", error>>

\* an operation of the call reported an error
ReportedError(r) == \E i \in 1..Len(r.trace) : r.trace[i].error # ""

\* a 500 with the text of the error, and no JSON
IsErrorResponse(response, text) ==
    /\ response.status = 500
    /\ response.body = text
    /\ response.content_type # "application/json"

\* not a 500, and JSON
IsJsonResponse(response) ==
    /\ response.status # 500
    /\ response.content_type = "application/json"

\* C25: both routes answer 500 with the text of the error whenever the
\* operation behind them reports an error and with JSON (not 500) only when it
\* reports none; a request never gets a second response, a request that is
\* over has got exactly one, and no call is left without its callback.
C25_ErrorsAnswered ==
    /\ requests[1].pc # "crashed"
    /\ \A method \in Methods :
        LET r == requests[1]
            responses == DownloadsResponses(method, r)
        IN  /\ Len(responses) <= 1
            /\ r.pc = "done" <=> Len(responses) = 1
            /\ \A i \in 1..Len(responses) :
                IF ReportedError(r)
                THEN IsErrorResponse(responses[i],
                                     DownloadsErrorText(Last(r.trace).error))
                ELSE IsJsonResponse(responses[i])
    /\ result.status = "responded" <=> Len(result.responses) = 1
    /\ result.status = "pending" <=> Len(result.responses) = 0
    /\ \A i \in 1..Len(result.responses) :
        IF result.callback[i].error # ""
        THEN IsErrorResponse(result.responses[i],
                             AveragesErrorText(result.callback[i].error))
        ELSE /\ IsJsonResponse(result.responses[i])
             /\ result.responses[i].body = result.callback[i].packages

\* C25 witness: the averages were answered with JSON for a package, and a
\* request of the downloads route was answered with 500 after its insert failed
C25_Witness ==
    /\ result.status = "responded"
    /\ IsJsonResponse(result.responses[1])
    /\ DOMAIN result.responses[1].body # {}
    /\ requests[1].pc = "done"
    /\ Last(requests[1].trace) = [op |-> "insert_statistic", error |-> DB_ERROR]
    /\ IsErrorResponse(DownloadsResponses("GET", requests[1])[1],
                       DownloadsErrorText(DB_ERROR))

\* a < b for dates <<y, m, d>>
DateBefore(a, b) ==
    \/ a[1] < b[1]
    \/ a[1] = b[1] /\ a[2] < b[2]
    \/ a[1] = b[1] /\ a[2] = b[2] /\ a[3] < b[3]

\* C26: when a call ends with success, a GET of the downloads route returns
\* the statistics of the callback as a JSON array of {day: YYYY-MM-DD,
\* downloads} ascending by day; a HEAD returns the headers and an empty body.
C26_DownloadsBody ==
    [][\A s \in Slots :
        (requests'[s] # requests[s] /\ Succeeded(requests'[s])) =>
            \A statistics \in {requests'[s].callback[1].statistics},
               get \in {DownloadsResponses("GET", requests'[s])[1]},
               head \in {DownloadsResponses("HEAD", requests'[s])[1]} :
                /\ IsJsonResponse(get)
                /\ Len(get.body) = Len(statistics)
                /\ \A i \in 1..Len(get.body) :
                    /\ DOMAIN get.body[i] = {"day", "downloads"}
                    /\ DateDay(get.body[i].day) = statistics[i].day
                    /\ get.body[i].downloads = statistics[i].downloads
                    /\ get.body[i].downloads \in Int
                /\ \A i \in 1..(Len(get.body) - 1) :
                    DateBefore(get.body[i].day, get.body[i + 1].day)
                /\ IsJsonResponse(head)
                /\ head.body = <<>>]_vars

\* C26 witness: a call that fetched and stored a range was answered; its
\* statistics span a change of month
C26_Witness ==
    \E s \in Slots :
        /\ Succeeded(requests[s])
        /\ Last(requests[s].trace).op = "insert_statistic"
        /\ LET body == DownloadsResponses("GET", requests[s])[1].body
           IN  /\ Len(body) >= 2
               /\ body[1].day[2] # body[Len(body)].day[2]

----------------------------------------------------------------------------
(* The two sentinels: -1 for a range without data, 0 for a day left out of *)
(* a successful response.                                                   *)

\* a successful response without any entry
EmptySuccess == [error |-> "", body |-> [error |-> "", downloads |-> <<>>]]

\* the stored records of the call after the decided range came back as a
\* successful empty response and was stored
AfterEmptySuccess ==
    getRangeStatistics(result.endpoints[1], result.endpoints[2],
                       EmptySuccess).statistics \o Existing

\* C31: only -1 records count toward backlog exhaustion: the count stops at a
\* leading record of 0; a sequence whose first record has downloads >= 0 is
\* never decided as exhausted; and when its backfill range is answered with a
\* successful empty response, the stored sequence starts with a 0 again and
\* the next call in the backfill case decides the range before it.
C31_OnlyUnavailableCounts ==
    Decided =>
        /\ countMissingStatistics(Existing) = LeadingMissing
        /\ (Len(Existing) > 0 /\ Existing[1].downloads >= 0) =>
            /\ countMissingStatistics(Existing) = 0
            /\ RangeReturned
            /\ BackfillCase =>
                LET next == AfterEmptySuccess
                    again == determineNeededEndpoints(next, call.min_range_days,
                                                      call.max_range_days, clock)
                IN  /\ Len(next) = Len(Existing) + call.max_range_days
                    /\ \A i \in 1..call.max_range_days : next[i].downloads = 0
                    /\ countMissingStatistics(next) = 0
                    /\ again.status = "returned"
                    /\ Len(again.endpoints) = 2
                    /\ DayOf(again.endpoints[2]) = StartDay - 1
                    /\ DayOf(again.endpoints[1]) = StartDay - call.max_range_days

\* C31 witness: a history that starts with a 0 is decided in the backfill
\* case with the spans of the package route
C31_Witness ==
    /\ BackfillCase /\ RangeReturned
    /\ Len(Existing) > 1
    /\ Existing[1].downloads = 0
    /\ call.max_range_days = 180
    /\ AfterEmptySuccess[1].downloads = 0

----------------------------------------------------------------------------
(* The call that loses the race for a range.                               *)

\* the rows the call of slot s tried to write
AttemptedRows(s) ==
    buildMultirowInsert(requests[s].package_row.id, requests[s].statistics)

\* the insert of slot s comes back in this step, without a failure of the
\* connection, and a key of its rows is stored already
InsertRejected(s) ==
    /\ requests[s].pc = "insert_statistic"
    /\ requests'[s].pc = "done"
    /\ used' = used
    /\ Keys(AttemptedRows(s)) \cap Keys(statistic) # {}

\* the call ends with the error of the constraint, answered with status 500 and
\* without statistics, and the table stays as it is
FailsWithoutRows(s) ==
    /\ requests'[s].callback = <<[error |-> UNIQUE_VIOLATION, statistics |-> <<>>]>>
    /\ \A method \in Methods :
        DownloadsResponses(method, requests'[s]) =
            <<[status |-> 500, content_type |-> "",
               body |-> DownloadsErrorText(UNIQUE_VIOLATION)]>>
    /\ statistic' = statistic

\* C32 as stated: a call whose bulk insert is rejected by the (package, day)
\* uniqueness constraint ends with an error, answered with status 500, and
\* returns no statistics, although every row it tried to write is stored
\* already; the stored rows stay unchanged.
C32_LoserFails ==
    [][\A s \in Slots :
        InsertRejected(s) =>
            /\ FailsWithoutRows(s)
            /\ Elements(AttemptedRows(s)) \subseteq Elements(statistic)]_vars

\* a call that is over stored the range the call of slot s decided
SameRangeStored(s) ==
    \E t \in Slots :
        /\ t # s
        /\ Succeeded(requests[t])
        /\ Last(requests[t].trace).op = "insert_statistic"
        /\ requests[t].package_row = requests[s].package_row
        /\ FirstFetchDay(requests[t]) = FirstFetchDay(requests[s])
        /\ LastFetchDay(requests[t]) = LastFetchDay(requests[s])

\* C32: a call whose bulk insert is rejected by the (package, day) uniqueness
\* constraint ends with the error of the constraint, answered with status 500,
\* and returns no statistics, although a row it tried to write is stored
\* already (each of them when the winning call stored the same range); the
\* stored rows stay unchanged.
C32_LoserFailsSomeStored ==
    [][\A s \in Slots :
        InsertRejected(s) =>
            /\ FailsWithoutRows(s)
            /\ SameRangeStored(s) =>
                    Elements(AttemptedRows(s)) \subseteq Elements(statistic)]_vars

\* C32 witness: two calls for a package read an empty table on the two sides
\* of 6am; the one with the shorter range stored it, the insert of the other
\* was rejected and its last day is not stored
C32_Witness ==
    \E s, t \in Slots :
        /\ s # t
        /\ requests[s].package_row = requests[t].package_row
        /\ Succeeded(requests[s]) /\ Last(requests[s].trace).op = "insert_statistic"
        /\ EndedWith(t, UNIQUE_VIOLATION)
        /\ Last(requests[t].trace).op = "insert_statistic"
        /\ LastFetchDay(requests[t]) = LastFetchDay(requests[s]) + 1
        /\ \A i \in 1..Len(statistic) :
                DateDay(statistic[i].day) # LastFetchDay(requests[t])

----------------------------------------------------------------------------
(* The shape of what is stored for a package.                              *)

\* the days stored for a package
StoredDaysOf(package_id) == {DateDay(row.day) : row \in StoredRows(package_id)}

\* the days a table holds for a package
DaysIn(table, package_id) ==
    {DateDay(table[i].day) : i \in {j \in 1..Len(table) : table[j].package_id = package_id}}

\* a set of days without a gap: at most one of them is not followed by the
\* next day
GapFree(days) == Cardinality({d \in days : d + 1 \notin days}) <= 1

\* C33: the store starts empty, and under every interleaving of concurrent
\* calls, also of calls that read the clock on the two sides of 6am, every
\* step that changes the statistic table leaves the days stored for each
\* package one interval of consecutive days.
C33_Contiguous ==
    [][statistic' # statistic =>
        \A i \in 1..Len(package') :
            \A days \in {DaysIn(statistic', package'[i].id)} : GapFree(days)]_vars

\* C33 witness: around 6am a backfill range and a forward range were stored
\* for the rows of one package, on both sides of its first range
C33_Witness ==
    /\ HourOf(clock) = 6
    /\ \E i \in 1..Len(package) :
        LET days == StoredDaysOf(package[i].id)
        IN  /\ NPM_EPOCH - 1 \in days
            /\ NPM_EPOCH + 11 \in days
            /\ GapFree(days)

----------------------------------------------------------------------------
(* A decided range is never empty.                                         *)

\* the response with the no-data error
NoStatsResponse == [error |-> "", body |-> [error |-> NO_STATS, downloads |-> <<>>]]

\* the insert of the decided range, normalized from `response`, into the
\* table of a package without rows
InsertOfDecided(response) ==
    LET got == getRangeStatistics(result.endpoints[1], result.endpoints[2], response)
        rows == buildMultirowInsert(1, got.statistics)
    IN  [error |-> got.error, rows |-> rows, done |-> ExecuteInsert(<<>>, rows)]

\* C34: every range returned by determineNeededEndpoints for positive
\* minGapDays <= maxSpanDays has start <= end, so the insert built from it has
\* at least one row, and when it succeeds the number of rows stored for the
\* package grows.
C34_RangeNonEmpty ==
    (RangeReturned /\ 0 < call.min_range_days
        /\ call.min_range_days <= call.max_range_days) =>
        /\ result.endpoints[1] <= result.endpoints[2]
        /\ \A response \in {EmptySuccess, NoStatsResponse} :
            \A insert \in {InsertOfDecided(response)} :
                /\ insert.error = ""
                /\ Len(insert.rows) >= 1
                /\ Len(insert.rows) = EndDay - StartDay + 1
                /\ insert.done.error = ""
                /\ Len(insert.done.table) > 0

\* C34 witness: the shortest forward range, of one day that ends at `now`
\* before 6am, and its one row
C34_Witness ==
    /\ RangeReturned /\ ForwardCase
    /\ call.min_range_days = 1
    /\ StartDay = EndDay
    /\ HourOf(result.endpoints[2]) < 6
    /\ Len(InsertOfDecided(EmptySuccess).rows) = 1

----------------------------------------------------------------------------
(* Where the first range and the backfill ranges lie.                      *)

\* the call of slot s has decided a range
RangeDecided(r) == r.decision.status = "returned" /\ Len(r.decision.endpoints) = 2

\* the decided range starts before the rows the call read
BackfillDecided(r) ==
    /\ RangeDecided(r)
    /\ Len(r.local_statistics) > 0
    /\ FirstFetchDay(r) < r.local_statistics[1].day

\* C35: from an empty store the first range decided for a package starts on
\* 2009-09-30, the day after the epoch; the epoch day is not in it, every
\* backfill range decided later ends on or before 2009-09-29, and a backfill
\* range has its max_range_days days also when it lies before the epoch.
C35_BackfillBeforeEpoch ==
    \A s \in Slots :
        LET r == requests[s]
        IN  /\ (RangeDecided(r) /\ r.local_statistics = <<>>) =>
                    FirstFetchDay(r) = NPM_EPOCH + 1
            /\ BackfillDecided(r) =>
                    /\ LastFetchDay(r) <= NPM_EPOCH
                    /\ LastFetchDay(r) = r.local_statistics[1].day - 1
                    /\ FirstFetchDay(r) = LastFetchDay(r) - r.max_range_days + 1

\* C35 witness: the first range of the empty name is stored and the ten days
\* that end on the epoch day are stored by a backfill
C35_Witness ==
    \E s \in Slots :
        /\ BackfillDecided(requests[s])
        /\ requests[s].name = ""
        /\ LastFetchDay(requests[s]) = NPM_EPOCH
        /\ FirstFetchDay(requests[s]) = NPM_EPOCH - 9
        /\ Succeeded(requests[s])
        /\ {NPM_EPOCH - 9, NPM_EPOCH, NPM_EPOCH + 1}
                \subseteq StoredDaysOf(requests[s].package_row.id)

----------------------------------------------------------------------------
(* The rows of the other packages.                                         *)

\* the rows stored for a package, in the order of the table
RowsOf(table, package_id) == SelectSeq(table, LAMBDA row : row.package_id = package_id)

\* the ids of the package rows that are not the row of the call
OtherPackages(r) == {package[i].id : i \in 1..Len(package)} \ {r.package_row.id}

\* C36: a call for one package never adds, changes or removes statistic rows
\* of another package, in every interleaving of concurrent calls for
\* different names: a step that changes the table is the insert of one call,
\* the package row of that call is the row of its name, and the rows of
\* every other package are as before.
C36_OtherPackagesUntouched ==
    [][statistic' # statistic =>
        \E s \in Slots :
            /\ requests[s].pc = "insert_statistic"
            /\ requests'[s] # requests[s]
            /\ \A t \in Slots \ {s} : requests'[t] = requests[t]
            /\ SelectPackage(requests[s].name) = <<requests[s].package_row>>
            /\ \A id \in OtherPackages(requests[s]) :
                    RowsOf(statistic', id) = RowsOf(statistic, id)]_vars

\* C36 witness: rows are stored for the empty name; a call for a package has
\* stored its rows behind them while another call for the empty name waits
\* for its insert
C36_Witness ==
    \E s, t \in Slots :
        /\ requests[s].name = "left-pad"
        /\ Succeeded(requests[s])
        /\ StoredRows(requests[s].package_row.id) # {}
        /\ \E id \in OtherPackages(requests[s]) : StoredRows(id) # {}
        /\ requests[t].name = "" /\ requests[t].pc = "insert_statistic"

----------------------------------------------------------------------------
(* The life of a package row.                                              *)

\* the call of slot s has failed in its upstream request or in its insert of
\* statistic rows
FailedAfterPackage(r) ==
    /\ r.pc = "done"
    /\ Last(r.trace).error # ""
    /\ Last(r.trace).op \in {"request", "insert_statistic"}

\* C37: a package row is created by a call for its name that found none, and
\* is never deleted or changed afterwards: in every step the stored package
\* rows stay as they are, at most one row is added, and a call that failed
\* after its package was resolved leaves the row of its name in the table.
C37_PackageRowsStay ==
    [][/\ Len(package') >= Len(package)
       /\ SubSeq(package', 1, Len(package)) = package
       /\ package' # package =>
            /\ Len(package') = Len(package) + 1
            /\ \E s \in Slots :
                /\ requests[s].pc = "insert_package"
                /\ requests'[s].pc = "select_statistic"
                /\ Ops(requests[s]) = <<"select_package">>
                /\ SelectPackage(requests[s].name) = <<>>
                /\ Last(package').name = requests[s].name
                /\ requests'[s].package_row = Last(package')
       /\ \A s \in Slots :
            FailedAfterPackage(requests'[s]) =>
                requests'[s].package_row \in Elements(package')]_vars

\* C37 witness: the first call for a name created the package row and failed
\* in its upstream request: the row is stored, no statistic row is
C37_Witness ==
    \E s \in Slots :
        /\ FailedAfterPackage(requests[s])
        /\ Ops(requests[s]) =
                <<"select_package", "insert_package", "select_statistic", "request">>
        /\ requests[s].package_row \in Elements(package)
        /\ StoredRows(requests[s].package_row.id) = {}
        /\ statistic = <<>>

----------------------------------------------------------------------------
(* The cycle of a HEAD request.                                            *)

\* the response sent to the request of a call that is over
SentResponse(r) == DownloadsResponses(r.method, r)[1]

\* an operation of the HEAD request in slot 1 comes back in this step
HeadStep ==
    /\ requests[1].method = "HEAD"
    /\ requests[1].pc \notin {"idle", "done"}
    /\ requests'[1] # requests[1]

\* C38: a HEAD request of the downloads route runs the cycle of a GET: each
\* operation that comes back without an error is followed by the next one of
\* getPackageStatistics (the package row is selected or created, the decided
\* range is requested upstream, its rows are inserted), and the response has
\* the status and the headers of the response to a GET, with an empty body
\* when it is not an error.
C38_HeadRunsCycle ==
    [][HeadStep =>
        LET r == requests[1]
            q == requests'[1]
            ok == Last(q.trace).error = ""
        IN  /\ q.method = "HEAD"
            /\ Len(q.trace) = Len(r.trace) + 1
            /\ Last(q.trace).op = r.pc
            /\ ~ok => q.pc = "done"
            /\ (ok /\ r.pc = "select_package") =>
                    IF SelectPackage(r.name) = <<>>
                    THEN q.pc = "insert_package"
                    ELSE q.pc = "select_statistic"
                         /\ q.package_row = SelectPackage(r.name)[1]
            /\ (ok /\ r.pc = "insert_package") =>
                    /\ q.pc = "select_statistic"
                    /\ q.package_row.name = r.name
                    /\ package' = Append(package, q.package_row)
            /\ (ok /\ r.pc = "select_statistic") =>
                    /\ q.local_statistics = SelectStatistic(r.package_row.id)
                    /\ q.decision = determineNeededEndpoints(q.local_statistics,
                                        Policy(r.name)[1], Policy(r.name)[2], clock)
                    /\ IF q.decision.endpoints = <<>>
                       THEN q.pc = "done"
                       ELSE q.pc = "request"
            /\ (ok /\ r.pc = "request") =>
                    /\ q.pc = "insert_statistic"
                    /\ q.statistics =
                            getRangeStatistics(r.decision.endpoints[1],
                                               r.decision.endpoints[2],
                                               q.response).statistics
            /\ (ok /\ r.pc = "insert_statistic") =>
                    /\ q.pc = "done"
                    /\ Len(r.statistics) > 0
                    /\ statistic' = statistic \o
                            buildMultirowInsert(r.package_row.id, r.statistics)
            /\ r.pc # "insert_package" => package' = package
            /\ r.pc # "insert_statistic" => statistic' = statistic
            /\ q.pc = "done" =>
                    /\ Len(q.callback) = 1
                    /\ SentResponse(q).status =
                            DownloadsResponses("GET", q)[1].status
                    /\ SentResponse(q).content_type =
                            DownloadsResponses("GET", q)[1].content_type
                    /\ IF ok
                       THEN /\ SentResponse(q).body = <<>>
                            /\ Len(DownloadsResponses("GET", q)[1].body) =
                                    Len(q.callback[1].statistics)
                       ELSE SentResponse(q) = DownloadsResponses("GET", q)[1]]_vars

\* C38 witness: a HEAD request for a new name created the package row, made
\* the upstream request and stored its rows; its response has no body
C38_Witness ==
    /\ requests[1].method = "HEAD"
    /\ Succeeded(requests[1])
    /\ Ops(requests[1]) = <<"select_package", "insert_package", "select_statistic",
                            "request", "insert_statistic">>
    /\ StoredRows(requests[1].package_row.id) # {}
    /\ Len(requests[1].callback[1].statistics) > 0
    /\ SentResponse(requests[1]).body = <<>>
    /\ SentResponse(requests[1]).status = 200

====
